---- MODULE Spec2Model ----
(***************************************************************************)
(* A model of mock-gcs: MockStorage, MockBucket and MockFile, an in-memory *)
(* double of the Google Cloud Storage client.                              *)
(*                                                                         *)
(* A JavaScript object used as a map (MockBucket.files) is a sequence of   *)
(* [key, value] properties in creation order; its enumeration order is     *)
(* computed by OwnKeys as the language defines it.  MockFile instances     *)
(* live in the heap mockFiles and are named by their index; 0 is           *)
(* undefined.  Every method is an operator from a world (the registry and  *)
(* the heap) to an outcome [w, ok, val]: the world after the call, whether *)
(* it returned (ok) or threw, and the value returned or the error thrown.  *)
(***************************************************************************)
EXTENDS Naturals, Integers, Sequences, FiniteSets, TLC

VARIABLES
  buckets,    \* MockStorage.buckets: bucket name -> MockBucket [name, files]
  mockFiles,  \* the MockFile instances constructed so far
  streams,    \* the WritableStreamBuffers of createWriteStream not yet finished
  ret,        \* the latest call: what was called and how it ended
  tasks       \* the calls of async methods started and not run in one step

vars == <<buckets, mockFiles, streams, ret, tasks>>
\* The same variables with the parts of ret apart, each compared with its
\* like: a step leaves calls unchanged exactly when it leaves vars unchanged.
calls ==
  <<buckets, mockFiles, streams, ret.op, ret.this, ret.ok, ret.val, tasks>>

(***************************************************************************)
(* Bounds of the model                                                     *)
(***************************************************************************)
MaxFiles == 2      \* MockFile instances constructed
MaxQueued == 2     \* mock errors pending at a time
MaxFrameQueued == 1 \* the same, where one error is enough
MaxMembers == 3     \* properties of files of a bucket
MaxStreams == 1    \* write streams open at a time
MaxWritten == 1    \* chunks written to one stream
MaxPending == 1    \* calls of put, upload and copy awaiting at a time
MaxLocalOpen == 1  \* write streams open and calls awaiting, under SpecLocal

BucketNames == {"b1"}
OneName == {<<"a">>}
\* Object names, as sequences of characters.
FileNames == {<<"a">>, <<"2">>}
Errors == {[error |-> "e1"], [error |-> "e2"]}
\* The keys of mockQueues, in the order of the object literal, and each as
\* the sequence of characters a caller names it by.
MockableOrder ==
  <<"exists", "delete", "download", "getSignedUrl", "save", "setMetadata",
    "getMetadata">>
Mockable == {MockableOrder[i] : i \in 1..Len(MockableOrder)}
MockableName ==
  [exists |-> <<"e", "x", "i", "s", "t", "s">>, delete |-> <<"d", "e", "l", "e", "t", "e">>,
   download |-> <<"d", "o", "w", "n", "l", "o", "a", "d">>,
   getSignedUrl |-> <<"g", "e", "t", "S", "i", "g", "n", "e", "d", "U", "r", "l">>,
   save |-> <<"s", "a", "v", "e">>,
   setMetadata |-> <<"s", "e", "t", "M", "e", "t", "a", "d", "a", "t", "a">>,
   getMetadata |-> <<"g", "e", "t", "M", "e", "t", "a", "d", "a", "t", "a">>]

Undefined == 0

(***************************************************************************)
(* JavaScript values                                                       *)
(***************************************************************************)
Buffer(bytes) == [type |-> "Buffer", bytes |-> bytes]
String(units) == [type |-> "string", units |-> units]
JsFalse == [type |-> "false"]
JsUndefined == [type |-> "undefined"]

isBuffer(v) == v.type = "Buffer"

\* UTF-8 of one code point of the basic plane (no surrogate).
Utf8(cp) ==
  IF cp < 128 THEN <<cp>>
  ELSE IF cp < 2048 THEN <<192 + (cp \div 64), 128 + (cp % 64)>>
  ELSE <<224 + (cp \div 4096), 128 + ((cp \div 64) % 64), 128 + (cp % 64)>>

RECURSIVE Utf8Seq(_)
Utf8Seq(units) ==
  IF units = <<>> THEN <<>> ELSE Utf8(Head(units)) \o Utf8Seq(Tail(units))

TypeError == [error |-> "TypeError"]

\* Buffer.from(data, 'latin1'): one byte for each code unit.
BufferFromLatin1(data) ==
  IF data.type = "string"
  THEN Buffer([i \in 1..Len(data.units) |-> data.units[i] % 256])
  ELSE IF data.type = "Buffer" THEN Buffer(data.bytes)
  ELSE TypeError

\* Buffer.from(data): a string is encoded, anything that is neither a string
\* nor a Buffer is a TypeError.
BufferFrom(data) ==
  IF data.type = "string" THEN Buffer(Utf8Seq(data.units))
  ELSE IF data.type = "Buffer" THEN Buffer(data.bytes)
  ELSE TypeError

\* An object literal {...a, ...b}: b's keys over a's.
EmptyObject == [k \in {} |-> Undefined]
Spread(a, b) ==
  [k \in (DOMAIN a) \cup (DOMAIN b) |-> IF k \in DOMAIN b THEN b[k] ELSE a[k]]
\* o[k] of a metadata object, and {...o[k]}: undefined spreads to nothing.
SpreadOf(o, k) == IF k \in DOMAIN o THEN o[k] ELSE EmptyObject

(***************************************************************************)
(* A JavaScript object as a map: properties in creation order              *)
(***************************************************************************)
\* The names as sequences of characters.
constructorName == <<"c", "o", "n", "s", "t", "r", "u", "c", "t", "o", "r">>
protoName == <<"_", "_", "p", "r", "o", "t", "o", "_", "_">>
contentsName == <<"c", "o", "n", "t", "e", "n", "t", "s">>
metadataName == <<"m", "e", "t", "a", "d", "a", "t", "a">>
mockQueuesName == <<"m", "o", "c", "k", "Q", "u", "e", "u", "e", "s">>

\* The properties every object inherits from Object.prototype.
ObjectPrototype ==
  {constructorName, protoName,
   <<"t", "o", "S", "t", "r", "i", "n", "g">>,
   <<"t", "o", "L", "o", "c", "a", "l", "e", "S", "t", "r", "i", "n", "g">>,
   <<"v", "a", "l", "u", "e", "O", "f">>,
   <<"h", "a", "s", "O", "w", "n", "P", "r", "o", "p", "e", "r", "t", "y">>,
   <<"i", "s", "P", "r", "o", "t", "o", "t", "y", "p", "e", "O", "f">>,
   <<"p", "r", "o", "p", "e", "r", "t", "y", "I", "s", "E", "n", "u", "m", "e",
     "r", "a", "b", "l", "e">>,
   <<"_", "_", "d", "e", "f", "i", "n", "e", "G", "e", "t", "t", "e", "r", "_", "_">>,
   <<"_", "_", "d", "e", "f", "i", "n", "e", "S", "e", "t", "t", "e", "r", "_", "_">>,
   <<"_", "_", "l", "o", "o", "k", "u", "p", "G", "e", "t", "t", "e", "r", "_", "_">>,
   <<"_", "_", "l", "o", "o", "k", "u", "p", "S", "e", "t", "t", "e", "r", "_", "_">>}

\* The properties an array has of its own or inherits from Array.prototype,
\* those of Object.prototype and its elements apart.
ArrayPrototype ==
  {<<"l", "e", "n", "g", "t", "h">>, <<"a", "t">>,
   <<"c", "o", "n", "c", "a", "t">>,
   <<"c", "o", "p", "y", "W", "i", "t", "h", "i", "n">>,
   <<"f", "i", "l", "l">>, <<"f", "i", "n", "d">>,
   <<"f", "i", "n", "d", "I", "n", "d", "e", "x">>,
   <<"f", "i", "n", "d", "L", "a", "s", "t">>,
   <<"f", "i", "n", "d", "L", "a", "s", "t", "I", "n", "d", "e", "x">>,
   <<"l", "a", "s", "t", "I", "n", "d", "e", "x", "O", "f">>,
   <<"p", "o", "p">>, <<"p", "u", "s", "h">>,
   <<"r", "e", "v", "e", "r", "s", "e">>, <<"s", "h", "i", "f", "t">>,
   <<"u", "n", "s", "h", "i", "f", "t">>, <<"s", "l", "i", "c", "e">>,
   <<"s", "o", "r", "t">>, <<"s", "p", "l", "i", "c", "e">>,
   <<"i", "n", "c", "l", "u", "d", "e", "s">>,
   <<"i", "n", "d", "e", "x", "O", "f">>, <<"j", "o", "i", "n">>,
   <<"k", "e", "y", "s">>, <<"e", "n", "t", "r", "i", "e", "s">>,
   <<"v", "a", "l", "u", "e", "s">>, <<"f", "o", "r", "E", "a", "c", "h">>,
   <<"f", "i", "l", "t", "e", "r">>, <<"f", "l", "a", "t">>,
   <<"f", "l", "a", "t", "M", "a", "p">>, <<"m", "a", "p">>,
   <<"e", "v", "e", "r", "y">>, <<"s", "o", "m", "e">>,
   <<"r", "e", "d", "u", "c", "e">>,
   <<"r", "e", "d", "u", "c", "e", "R", "i", "g", "h", "t">>,
   <<"t", "o", "R", "e", "v", "e", "r", "s", "e", "d">>,
   <<"t", "o", "S", "o", "r", "t", "e", "d">>,
   <<"t", "o", "S", "p", "l", "i", "c", "e", "d">>, <<"w", "i", "t", "h">>}

\* The properties a MockFile has of its own or inherits from its class,
\* contents apart.
MockFilePrototype ==
  {<<"n", "a", "m", "e">>, <<"b", "u", "c", "k", "e", "t">>,
   <<"p", "a", "r", "e", "n", "t">>, <<"s", "t", "o", "r", "a", "g", "e">>,
   metadataName, mockQueuesName,
   <<"m", "u", "s", "t", "B", "e", "E", "x", "i", "s", "t", "s">>,
   <<"m", "a", "r", "k", "A", "s", "E", "x", "i", "s", "t", "s">>,
   <<"m", "o", "c", "k", "R", "e", "s", "e", "t">>,
   <<"m", "o", "c", "k", "E", "r", "r", "o", "r", "O", "n", "c", "e">>,
   <<"d", "e", "l", "e", "t", "e">>, <<"e", "x", "i", "s", "t", "s">>,
   <<"s", "e", "t", "M", "e", "t", "a", "d", "a", "t", "a">>,
   <<"g", "e", "t", "M", "e", "t", "a", "d", "a", "t", "a">>,
   <<"g", "e", "t", "S", "i", "g", "n", "e", "d", "U", "r", "l">>,
   <<"c", "r", "e", "a", "t", "e", "R", "e", "a", "d", "S", "t", "r", "e", "a", "m">>,
   <<"c", "r", "e", "a", "t", "e", "W", "r", "i", "t", "e", "S", "t", "r", "e", "a",
     "m">>,
   <<"d", "o", "w", "n", "l", "o", "a", "d">>, <<"s", "a", "v", "e">>,
   <<"c", "o", "p", "y">>}

\* What a property of files can hold besides a MockFile (1, 2, ...): a
\* function or an object found on the prototype chain, and false.
NotAFile == 0 - 1
False == 0 - 2
Truthy(v) == v # Undefined /\ v # False

\* files is the sequence of the own properties of this.files of a bucket,
\* and proto its prototype: Object.prototype (NotAFile) until an assignment
\* to files.__proto__ makes it a MockFile.
Has(obj, k) == \E i \in 1..Len(obj) : obj[i].key = k

\* this.files[k] of the bucket b: the own property, or the one inherited.
Get(w, b, k) ==
  LET obj == w.buckets[b].files
      proto == w.buckets[b].proto
  IN IF Has(obj, k)
     THEN obj[CHOOSE i \in 1..Len(obj) : obj[i].key = k].value
     ELSE IF k = protoName THEN proto
     ELSE IF proto # NotAFile /\ k = contentsName
     THEN IF w.mockFiles[proto].contents = JsFalse THEN False ELSE NotAFile
     ELSE IF k \in ObjectPrototype
               \/ (proto # NotAFile /\ k \in MockFilePrototype)
     THEN NotAFile
     ELSE Undefined

\* this.files[k] = v of the bucket b: an assignment to __proto__ sets the
\* prototype and makes no property.
Set(w, b, k, v) ==
  LET obj == w.buckets[b].files
  IN IF k = protoName
     THEN [w EXCEPT !.buckets[b].proto = v]
     ELSE IF Has(obj, k)
     THEN [w EXCEPT !.buckets[b].files =
             [i \in 1..Len(obj) |->
                IF obj[i].key = k THEN [key |-> k, value |-> v] ELSE obj[i]]]
     ELSE [w EXCEPT !.buckets[b].files = Append(obj, [key |-> k, value |-> v])]

\* delete this.files[k] of the bucket b
Delete(w, b, k) ==
  [w EXCEPT !.buckets[b].files = SelectSeq(@, LAMBDA p : p.key # k)]

DigitValue(c) ==
  CASE c = "0" -> 0 [] c = "1" -> 1 [] c = "2" -> 2 [] c = "3" -> 3
    [] c = "4" -> 4 [] c = "5" -> 5 [] c = "6" -> 6 [] c = "7" -> 7
    [] c = "8" -> 8 [] c = "9" -> 9

RECURSIVE ToNumber(_)
ToNumber(k) ==
  IF k = <<>> THEN 0
  ELSE 10 * ToNumber(SubSeq(k, 1, Len(k) - 1)) + DigitValue(k[Len(k)])

\* A canonical numeric string below 2^32 - 1: such keys enumerate first, in
\* ascending numeric order.  Every canonical string of at most nine digits
\* is one; the ten-digit indices are beyond the names of the model.
IsArrayIndex(k) ==
  /\ Len(k) >= 1
  /\ Len(k) <= 9
  /\ \A i \in 1..Len(k) :
       k[i] \in {"0", "1", "2", "3", "4", "5", "6", "7", "8", "9"}
  /\ (Len(k) = 1 \/ k[1] # "0")

RECURSIVE Ascending(_)
Ascending(ks) ==
  IF ks = {} THEN <<>>
  ELSE LET m == CHOOSE x \in ks : \A y \in ks : ToNumber(x) <= ToNumber(y)
       IN <<m>> \o Ascending(ks \ {m})

KeysOf(obj) == [i \in 1..Len(obj) |-> obj[i].key]

\* The keys in creation order, whatever they are.
KeysInCreationOrder(obj) == KeysOf(obj)

\* OrdinaryOwnPropertyKeys: the order of Object.entries.
OwnKeys(obj) ==
  Ascending({obj[i].key : i \in {j \in 1..Len(obj) : IsArrayIndex(obj[j].key)}})
    \o KeysOf(SelectSeq(obj, LAMBDA p : ~IsArrayIndex(p.key)))

\* name.startsWith(prefix)
startsWith(name, prefix) ==
  /\ Len(prefix) <= Len(name)
  /\ SubSeq(name, 1, Len(prefix)) = prefix

(***************************************************************************)
(* Worlds and outcomes                                                     *)
(***************************************************************************)
World == [buckets |-> buckets, mockFiles |-> mockFiles]
Returned(w, v) == [w |-> w, ok |-> TRUE, val |-> v]
Threw(w, e) == [w |-> w, ok |-> FALSE, val |-> e]

NoError == [error |-> "none"]
NoSuchFile(b, n) == [error |-> "No such file", bucket |-> b, name |-> n]
\* Method '${method}' is not mockable, use on of these: ${keys}
NotMockable(m, keys) == [error |-> "not mockable", method |-> m, keys |-> keys]

\* Array.prototype.pop in the place of shift: the last entry first.
pop(q) ==
  IF q = <<>> THEN [value |-> JsUndefined, rest |-> <<>>]
  ELSE [value |-> q[Len(q)], rest |-> SubSeq(q, 1, Len(q) - 1)]

\* Array.prototype.shift: the removed head (undefined when empty), the rest.
shift(q) ==
  IF q = <<>> THEN [value |-> JsUndefined, rest |-> <<>>]
  ELSE [value |-> Head(q), rest |-> Tail(q)]

\* const mockValue = this.mockQueues.<m>.shift();
mockValue(w, f, m) == shift(w.mockFiles[f].mockQueues[m]).value
\* A shift that takes the head off every queue of the handle.
ShiftedAll(w, f, m) ==
  [w EXCEPT !.mockFiles[f].mockQueues =
     [k \in Mockable |-> shift(w.mockFiles[f].mockQueues[k]).rest]]

Shifted(w, f, m) ==
  [w EXCEPT !.mockFiles[f].mockQueues[m] = shift(@).rest]
\* mockValue && mockValue.type === 'error'
IsMockError(v) == v.type = "error"

\* this.bucket.files[this.name]
OwnEntry(w, f) == Get(w, w.mockFiles[f].bucket, w.mockFiles[f].name)

(***************************************************************************)
(* MockFile                                                                *)
(***************************************************************************)
\* mockQueues is the seven queues of the object literal; addedQueues is
\* the own properties an assignment this.mockQueues[method] = [] has added
\* to them, in creation order; queuesProto is the prototype of mockQueues,
\* Object.prototype until an assignment to mockQueues.__proto__ makes it an
\* array.
NoQueues == [m \in Mockable |-> <<>>]
NoArray == [array |-> FALSE, items |-> <<>>]

MockFile(bucket, name) ==
  [name |-> name,
   bucket |-> bucket,
   contents |-> Buffer(<<>>),
   metadata |-> [metadata |-> EmptyObject],
   mockQueues |-> NoQueues,
   addedQueues |-> <<>>,
   queuesProto |-> NoArray]

\* Object.keys(this.mockQueues)
mockKeys(file) ==
  OwnKeys([i \in 1..Len(MockableOrder) |->
             [key |-> MockableName[MockableOrder[i]], value |-> <<>>]]
            \o file.addedQueues)

\* this.mockQueues[method] is truthy though mockQueues has no property
\* method of its own: a function or an object of Object.prototype, or of
\* the array that is its prototype, the length of that array when not 0,
\* or one of its elements.
InheritsQueue(file, method) ==
  \/ method \in ObjectPrototype
  \/ /\ file.queuesProto.array
     /\ \/ method \in ArrayPrototype
             /\ (method = <<"l", "e", "n", "g", "t", "h">>
                   => file.queuesProto.items # <<>>)
        \/ IsArrayIndex(method)
             /\ ToNumber(method) < Len(file.queuesProto.items)

\* The error mustBeExists throws, or NoError.
mustBeExists(w, f) ==
  LET exists == Truthy(OwnEntry(w, f))
  IN IF ~exists
     THEN NoSuchFile(w.mockFiles[f].bucket, w.mockFiles[f].name)
     ELSE NoError

markAsExists(w, f) ==
  LET exists == Truthy(OwnEntry(w, f))
  IN IF ~exists
     THEN Set(w, w.mockFiles[f].bucket, w.mockFiles[f].name, f)
     ELSE w

\* A mockReset that empties every queue, whatever the method.
mockResetAll(w, f, method) ==
  Returned([w EXCEPT !.mockFiles[f].mockQueues = NoQueues], f)

\* method is the name given, the empty sequence when none is: '' is falsy
\* like undefined.  An assignment to mockQueues.__proto__ sets the
\* prototype and makes no property.
mockReset(w, f, method) ==
  LET own == {m \in Mockable : MockableName[m] = method}
      added == w.mockFiles[f].addedQueues
  IN IF method = <<>>
     THEN Returned([w EXCEPT !.mockFiles[f] =
                      [@ EXCEPT !.mockQueues = NoQueues, !.addedQueues = <<>>,
                                !.queuesProto = NoArray]], f)
     ELSE IF own # {}
     THEN Returned([w EXCEPT !.mockFiles[f].mockQueues[CHOOSE m \in own : TRUE] =
                      <<>>], f)
     ELSE IF method = protoName
     THEN Returned([w EXCEPT !.mockFiles[f].queuesProto =
                      [array |-> TRUE, items |-> <<>>]], f)
     ELSE IF Has(added, method)
     THEN Returned([w EXCEPT !.mockFiles[f].addedQueues =
                      [i \in 1..Len(added) |->
                         IF added[i].key = method
                         THEN [key |-> method, value |-> <<>>] ELSE added[i]]], f)
     ELSE Returned([w EXCEPT !.mockFiles[f].addedQueues =
                      Append(@, [key |-> method, value |-> <<>>])], f)

\* if (!this.mockQueues[method]) throw ...: the lookup follows the prototype
\* chain, and what it finds there and is no array has no push to call.
mockErrorOnce(w, f, method, error) ==
  LET own == {m \in Mockable : MockableName[m] = method}
      added == w.mockFiles[f].addedQueues
      entry == [type |-> "error", error |-> error]
  IN IF own # {}
     THEN Returned([w EXCEPT !.mockFiles[f].mockQueues[CHOOSE m \in own : TRUE] =
                      Append(@, entry)], f)
     ELSE IF Has(added, method)
     THEN Returned([w EXCEPT !.mockFiles[f].addedQueues =
                      [i \in 1..Len(added) |->
                         IF added[i].key = method
                         THEN [key |-> method,
                               value |-> Append(added[i].value, entry)]
                         ELSE added[i]]], f)
     ELSE IF method = protoName /\ w.mockFiles[f].queuesProto.array
     THEN Returned([w EXCEPT !.mockFiles[f].queuesProto.items =
                      Append(@, entry)], f)
     ELSE IF InheritsQueue(w.mockFiles[f], method) THEN Threw(w, TypeError)
     ELSE Threw(w, NotMockable(method, mockKeys(w.mockFiles[f])))

\* A delete that removes every name of the bucket.
deleteEveryName(w, f) ==
  LET mv == mockValue(w, f, "delete")
      w1 == Shifted(w, f, "delete")
  IN IF IsMockError(mv) THEN Threw(w1, mv.error)
     ELSE IF mustBeExists(w1, f) # NoError THEN Threw(w1, mustBeExists(w1, f))
     ELSE Returned([w1 EXCEPT !.buckets[w.mockFiles[f].bucket].files = EmptyObject],
                   <<EmptyObject>>)

delete(w, f) ==
  LET mv == mockValue(w, f, "delete")
      w1 == Shifted(w, f, "delete")
  IN IF IsMockError(mv) THEN Threw(w1, mv.error)
     ELSE IF mustBeExists(w1, f) # NoError THEN Threw(w1, mustBeExists(w1, f))
     ELSE Returned(Delete(w1, w.mockFiles[f].bucket, w.mockFiles[f].name),
                   <<EmptyObject>>)

exists(w, f) ==
  LET mv == mockValue(w, f, "exists")
      w1 == Shifted(w, f, "exists")
  IN IF IsMockError(mv) THEN Threw(w1, mv.error)
     ELSE Returned(w1, <<Truthy(OwnEntry(w1, f))>>)

\* A setMetadata that overwrites: this.metadata = metadata.
setMetadataOverwriting(w, f, metadata) ==
  LET mv == mockValue(w, f, "setMetadata")
      w1 == Shifted(w, f, "setMetadata")
  IN IF IsMockError(mv) THEN Threw(w1, mv.error)
     ELSE IF mustBeExists(w1, f) # NoError THEN Threw(w1, mustBeExists(w1, f))
     ELSE Returned([w1 EXCEPT !.mockFiles[f].metadata = metadata], <<metadata>>)

setMetadata(w, f, metadata) ==
  LET mv == mockValue(w, f, "setMetadata")
      w1 == Shifted(w, f, "setMetadata")
      old == w1.mockFiles[f].metadata
      customMetadata ==
        Spread(SpreadOf(old, "metadata"), SpreadOf(metadata, "metadata"))
      new == Spread(Spread(old, metadata), [metadata |-> customMetadata])
  IN IF IsMockError(mv) THEN Threw(w1, mv.error)
     ELSE IF mustBeExists(w1, f) # NoError THEN Threw(w1, mustBeExists(w1, f))
     ELSE Returned([w1 EXCEPT !.mockFiles[f].metadata = new], <<new>>)

getMetadata(w, f) ==
  LET mv == mockValue(w, f, "getMetadata")
      w1 == Shifted(w, f, "getMetadata")
  IN IF IsMockError(mv) THEN Threw(w1, mv.error)
     ELSE IF mustBeExists(w1, f) # NoError THEN Threw(w1, mustBeExists(w1, f))
     ELSE Returned(w1, <<w1.mockFiles[f].metadata, EmptyObject>>)

getSignedUrl(w, f) ==
  LET mv == mockValue(w, f, "getSignedUrl")
      w1 == Shifted(w, f, "getSignedUrl")
  IN IF IsMockError(mv) THEN Threw(w1, mv.error)
     ELSE IF mustBeExists(w1, f) # NoError THEN Threw(w1, mustBeExists(w1, f))
     ELSE Returned(w1, <<<<"https://storage.googleapis.com/",
                         w1.mockFiles[f].bucket, "/", w1.mockFiles[f].name,
                         "?X-Goog-Algorithm=MOCKED">>>>)

download(w, f) ==
  LET mv == mockValue(w, f, "download")
      w1 == Shifted(w, f, "download")
  IN IF IsMockError(mv) THEN Threw(w1, mv.error)
     ELSE IF mustBeExists(w1, f) # NoError THEN Threw(w1, mustBeExists(w1, f))
     ELSE Returned(w1, <<w1.mockFiles[f].contents>>)

\* A save that merges options.metadata into the metadata it finds.
saveMerging(w, f, data, options) ==
  LET mv == mockValue(w, f, "save")
      w1 == Shifted(w, f, "save")
      w2 == markAsExists(w1, f)
      w3 == IF "metadata" \in DOMAIN options
            THEN [w2 EXCEPT !.mockFiles[f].metadata = Spread(@, options.metadata)]
            ELSE w2
      contents == IF isBuffer(data) THEN data ELSE BufferFrom(data)
  IN IF IsMockError(mv) THEN Threw(w1, mv.error)
     ELSE IF contents = TypeError THEN Threw(w3, TypeError)
     ELSE Returned([w3 EXCEPT !.mockFiles[f].contents = contents], JsUndefined)

\* options is {} or {metadata: M}.
save(w, f, data, options) ==
  LET mv == mockValue(w, f, "save")
      w1 == Shifted(w, f, "save")
      w2 == markAsExists(w1, f)
      w3 == IF "metadata" \in DOMAIN options
            THEN [w2 EXCEPT !.mockFiles[f].metadata = options.metadata]
            ELSE w2
      contents == IF isBuffer(data) THEN data ELSE BufferFrom(data)
  IN IF IsMockError(mv) THEN Threw(w1, mv.error)
     ELSE IF contents = TypeError THEN Threw(w3, TypeError)
     ELSE Returned([w3 EXCEPT !.mockFiles[f].contents = contents], JsUndefined)

(***************************************************************************)
(* MockBucket and MockStorage                                              *)
(***************************************************************************)
MockBucket(name) == [name |-> name, files |-> <<>>, proto |-> NotAFile]

\* const file = this.files[name] || new MockFile(this, name)
file(w, b, name, forceExists) ==
  LET found == Get(w, b, name)
      w1 == IF Truthy(found) THEN w
            ELSE [w EXCEPT !.mockFiles = Append(@, MockFile(b, name))]
      f == IF Truthy(found) THEN found ELSE Len(w1.mockFiles)
      w2 == IF forceExists
            THEN Set(w1, b, name, f)
            ELSE w1
  IN Returned(w2, f)

\* query is {} or {prefix: p}; an empty prefix is falsy and '' all the same.
getFiles(w, b, query) ==
  LET prefix == IF "prefix" \in DOMAIN query /\ query.prefix # <<>>
                THEN query.prefix ELSE <<>>
      keys == OwnKeys(w.buckets[b].files)
      Matches(name) == startsWith(name, prefix)
      filtered == SelectSeq(keys, Matches)
  IN Returned(w, <<[i \in 1..Len(filtered) |-> Get(w, b, filtered[i])],
                   EmptyObject, EmptyObject>>)

\* A deleteFiles that removes every member, whatever the prefix.
deleteFilesAll(w, b, query) ==
  Returned([w EXCEPT !.buckets[b].files = <<>>], JsUndefined)

\* Not in MockBucket.ts, though its tests call it: written from the
\* description of deleteObjects.  Every member whose name starts with the
\* prefix leaves files; no match is no failure.
deleteFiles(w, b, query) ==
  LET prefix == IF "prefix" \in DOMAIN query /\ query.prefix # <<>>
                THEN query.prefix ELSE <<>>
      Kept(p) == ~startsWith(p.key, prefix)
  IN Returned([w EXCEPT !.buckets[b].files = SelectSeq(@, Kept)], JsUndefined)

\* The names of Object.prototype as the keys of MockStorage.buckets, and what
\* bucket returns for them: a function or an object, no MockBucket.
RegistryPrototype ==
  {"constructor", "__proto__", "toString", "toLocaleString", "valueOf",
   "hasOwnProperty", "isPrototypeOf", "propertyIsEnumerable",
   "__defineGetter__", "__defineSetter__", "__lookupGetter__",
   "__lookupSetter__"}
NotABucket == "not a MockBucket"

\* if (this.buckets[name] === undefined) ...; return this.buckets[name]
bucket(w, name) ==
  LET w1 == [w EXCEPT !.buckets =
               [n \in (DOMAIN w.buckets) \cup {name} |->
                  IF n = name THEN MockBucket(name) ELSE w.buckets[n]]]
  IN IF name \in DOMAIN w.buckets THEN Returned(w, name)
     ELSE IF name \in RegistryPrototype THEN Returned(w, NotABucket)
     ELSE Returned(w1, name)

\* copy's destination is a name, a MockBucket, a MockFile or another object.
ToName(n) == [type |-> "string", name |-> n]
ToBucket(b) == [type |-> "MockBucket", bucket |-> b]
ToFile(f) == [type |-> "MockFile", file |-> f]

targetBucket(w, f, destination) ==
  IF destination.type = "string" THEN w.mockFiles[f].bucket
  ELSE IF destination.type = "MockBucket" THEN destination.bucket
  ELSE w.mockFiles[destination.file].bucket

targetFileName(w, f, destination) ==
  IF destination.type = "string" THEN destination.name
  ELSE IF destination.type = "MockBucket" THEN w.mockFiles[f].name
  ELSE w.mockFiles[destination.file].name

(***************************************************************************)
(* The async functions that await: put, upload and copy                    *)
(***************************************************************************)
\* A part of an async function runs from the call, or from the resumption
\* after an await, to the next await or to the end.  It leaves the world w
\* with the function awaiting at pc the promise of the call it has just
\* made, which settled as got, or resolved with val, or rejected with
\* error; contents is what the download that copy awaited resolved with.
Awaits(w, pc, r, contents, val) ==
  [w |-> w, pc |-> pc, got |-> [ok |-> r.ok, val |-> r.val],
   contents |-> contents, val |-> val, error |-> NoError]
Resolved(w, v) ==
  [w |-> w, pc |-> "resolved", got |-> [ok |-> TRUE, val |-> JsUndefined],
   contents |-> JsUndefined, val |-> v, error |-> NoError]
Rejected(w, e) ==
  [w |-> w, pc |-> "rejected", got |-> [ok |-> TRUE, val |-> JsUndefined],
   contents |-> JsUndefined, val |-> JsUndefined, error |-> e]
Awaiting(r) == r.pc \notin {"resolved", "rejected"}
\* How a function that has settled ended for the one who awaits it.
Outcome(r) ==
  IF r.pc = "resolved" THEN Returned(r.w, r.val) ELSE Threw(r.w, r.error)

\* return this.files[name]
putReturn(w, b, name) == Resolved(w, Get(w, b, name))

\* if (metadata) await this.files[name].setMetadata(metadata): the method of
\* undefined, and of what is no MockFile, cannot be called.
putSetMetadata(w, b, name, metadata) ==
  LET g == Get(w, b, name)
      m == setMetadata(w, g, metadata)
  IN IF metadata = JsUndefined THEN putReturn(w, b, name)
     ELSE IF g \notin 1..Len(w.mockFiles) THEN Rejected(w, TypeError)
     ELSE Awaits(m.w, "awaitSetMetadata", m, JsUndefined, JsUndefined)

\* this.files[name] = new MockFile(this, name);
\* if (contents) await this.files[name].save(contents)
putStart(w, b, name, contents, metadata) ==
  LET w1 == Set([w EXCEPT !.mockFiles = Append(@, MockFile(b, name))],
                b, name, Len(w.mockFiles) + 1)
      s == save(w1, Get(w1, b, name), contents, EmptyObject)
      \* if (contents): a Buffer is truthy, a string unless it is empty
      truthy == \/ contents.type = "Buffer"
                \/ contents.type = "string" /\ contents.units # <<>>
  IN IF ~truthy THEN putSetMetadata(w1, b, name, metadata)
     ELSE Awaits(s.w, "awaitSave", s, JsUndefined, JsUndefined)

\* The part of put that runs when the task t is resumed: what it awaited
\* has settled as t.got.
putResume(w, t) ==
  IF ~t.got.ok THEN Rejected(w, t.got.val)
  ELSE IF t.pc = "awaitSave"
  THEN putSetMetadata(w, t.bucket, t.name, t.metadata)
  ELSE putReturn(w, t.bucket, t.name)

\* A call of put that awaits.
Task(b, n, c, m, r) ==
  [op |-> "put", this |-> Undefined, bucket |-> b, name |-> n,
   contents |-> c, metadata |-> m, pc |-> r.pc, got |-> r.got]

\* put run to its end with no other task in between.  contents and metadata
\* are JsUndefined when not given.
put(w, b, name, contents, metadata) ==
  LET a == putStart(w, b, name, contents, metadata)
      s == IF Awaiting(a)
           THEN putResume(a.w, Task(b, name, contents, metadata, a)) ELSE a
      m == IF Awaiting(s)
           THEN putResume(s.w, Task(b, name, contents, metadata, s)) ELSE s
  IN Outcome(m)

\* path.basename(filePath): what follows the last separator, the trailing
\* separators apart.
RECURSIVE Trimmed(_)
Trimmed(p) ==
  IF p # <<>> /\ p[Len(p)] = "/" THEN Trimmed(SubSeq(p, 1, Len(p) - 1)) ELSE p
RECURSIVE LastPart(_)
LastPart(p) ==
  IF p = <<>> \/ p[Len(p)] = "/" THEN <<>>
  ELSE Append(LastPart(SubSeq(p, 1, Len(p) - 1)), p[Len(p)])
basename(p) == LastPart(Trimmed(p))

\* What fs.readFileSync finds at a path: a Buffer, or no file.
NoEntry == [error |-> "ENOENT"]
\* options.destination of upload: a name, or a File of the client library.
ToClientFile == [type |-> "File", name |-> <<"f">>]
\* options?.metadata: undefined when not given.
uploadMetadata(options) ==
  IF "metadata" \in DOMAIN options THEN options.metadata ELSE JsUndefined

\* upload up to: const file = await this.put(name, contents, metadata).
\* options is {}, {destination}, {metadata} or both; disk is what is at
\* filePath without the separators that end it: the bytes of a file, or
\* nothing.  readFileSync finds no directory in a file when filePath ends
\* with a separator.
uploadName(filePath, options) ==
  IF "destination" \in DOMAIN options /\ options.destination.name # <<>>
  THEN options.destination.name ELSE basename(filePath)
\* The property metadata of what put has returned for name and is no
\* MockFile: a function, a string, a Buffer, false, a MockBucket and a
\* MockStorage have none; the metadata of the MockFile that is the
\* prototype of files has its custom map, and its mockQueues the queue that
\* mockReset('metadata') has added.  The object is read as put returns it.
inheritedMetadata(w, b, name) ==
  LET proto == w.buckets[b].proto
      inherited == ~Has(w.buckets[b].files, name) /\ proto # NotAFile
      added == w.mockFiles[proto].addedQueues
  IN IF inherited /\ name = metadataName
          /\ "metadata" \in DOMAIN w.mockFiles[proto].metadata
     THEN w.mockFiles[proto].metadata.metadata
     ELSE IF inherited /\ name = mockQueuesName /\ Has(added, metadataName)
     THEN added[CHOOSE i \in 1..Len(added) : added[i].key = metadataName].value
     ELSE JsUndefined

\* The put that upload awaits has settled as r.
uploadPut(r, b, name) ==
  Awaits(r.w, "awaitPut", Outcome(r), JsUndefined,
         inheritedMetadata(r.w, b, name))

uploadStart(w, b, filePath, options, disk) ==
  LET given == "destination" \in DOMAIN options
      r == putStart(w, b, uploadName(filePath, options), disk,
                    uploadMetadata(options))
  IN IF given /\ options.destination.type = "File"
     THEN Rejected(w, [error |-> "Type File is not supported"])
     ELSE IF disk = NoEntry THEN Rejected(w, NoEntry)
     ELSE IF filePath # <<>> /\ filePath[Len(filePath)] = "/"
     THEN Rejected(w, [error |-> "ENOTDIR"])
     ELSE IF Awaiting(r) THEN r
     ELSE uploadPut(r, b, uploadName(filePath, options))

\* return [file, file.metadata]: undefined has no metadata to read; the
\* metadata of a MockFile is the one it has now, and metadata is what was
\* found in any other object.
uploadReturn(w, got, metadata) ==
  IF ~got.ok THEN Rejected(w, got.val)
  ELSE IF got.val = Undefined THEN Rejected(w, TypeError)
  ELSE IF got.val \notin 1..Len(w.mockFiles)
  THEN Resolved(w, <<got.val, metadata>>)
  ELSE Resolved(w, <<got.val, w.mockFiles[got.val].metadata>>)

\* The part of upload that runs when the task t is resumed: a part of the
\* put it awaits, or its own end once that put has settled.
uploadResume(w, t) ==
  LET r == putResume(w, t)
  IN IF t.pc = "awaitPut" THEN uploadReturn(w, t.got, t.val)
     ELSE IF Awaiting(r) THEN r
     ELSE uploadPut(r, t.bucket, t.name)

\* The destination is told apart, then: await this.download()
copyStart(w, f, destination, options) ==
  LET d == download(w, f)
  IN IF destination.type \notin {"string", "MockBucket", "MockFile"}
     THEN Rejected(w, [error |-> "Invalid destination type"])
     ELSE Awaits(d.w, "awaitDownload", d, JsUndefined, JsUndefined)

\* const [contents] = (the download awaited); await this.getMetadata()
copyGetMetadata(w, f, got) ==
  LET g == getMetadata(w, f)
  IN IF ~got.ok THEN Rejected(w, got.val)
     ELSE Awaits(g.w, "awaitGetMetadata", g, got.val[1], JsUndefined)

\* const [metadata] = (the getMetadata awaited); newMetadata; newFile;
\* await newFile.save(contents, { metadata: newMetadata }): what is found
\* at the target name and is no MockFile has no save to call.
copySave(w, f, destination, options, got, contents) ==
  LET newMetadata == Spread(got.val[1], SpreadOf(options, "metadata"))
      n == file(w, targetBucket(w, f, destination),
                targetFileName(w, f, destination), FALSE)
      newFile == n.val
      s == save(n.w, newFile, contents, [metadata |-> newMetadata])
  IN IF ~got.ok THEN Rejected(w, got.val)
     ELSE IF newFile \notin 1..Len(n.w.mockFiles) THEN Rejected(n.w, TypeError)
     ELSE Awaits(s.w, "awaitSave", s, contents, <<newFile, newMetadata>>)

\* return [newFile, newMetadata]
copyReturn(w, got, val) ==
  IF ~got.ok THEN Rejected(w, got.val) ELSE Resolved(w, val)

\* The part of copy that runs when the task t is resumed.
copyResume(w, t) ==
  IF t.pc = "awaitDownload" THEN copyGetMetadata(w, t.this, t.got)
  ELSE IF t.pc = "awaitGetMetadata"
  THEN copySave(w, t.this, t.destination, t.options, t.got, t.contents)
  ELSE copyReturn(w, t.got, t.val)

\* A call of copy that awaits.
CopyTask(f, destination, options, r) ==
  [op |-> "copy", this |-> f, destination |-> destination,
   options |-> options, pc |-> r.pc, got |-> r.got, contents |-> r.contents,
   val |-> r.val]

\* copy run to its end with no other task in between.  options is {} or
\* {metadata: M}.
copy(w, f, destination, options) ==
  LET d == copyStart(w, f, destination, options)
      g == IF Awaiting(d)
           THEN copyResume(d.w, CopyTask(f, destination, options, d)) ELSE d
      s == IF Awaiting(g)
           THEN copyResume(g.w, CopyTask(f, destination, options, g)) ELSE g
      e == IF Awaiting(s)
           THEN copyResume(s.w, CopyTask(f, destination, options, s)) ELSE s
  IN Outcome(e)

(***************************************************************************)
(* Streams (stream-buffers)                                                *)
(***************************************************************************)
\* ReadableStreamBuffer.put(data): a Buffer is copied, anything else is
\* converted to a string and encoded.
FalseText == <<102, 97, 108, 115, 101>>

createReadStream(w, f) ==
  IF mustBeExists(w, f) # NoError THEN Threw(w, mustBeExists(w, f))
  ELSE Returned(w, [type |-> "Readable",
                    data |-> IF isBuffer(w.mockFiles[f].contents)
                             THEN w.mockFiles[f].contents.bytes
                             ELSE FalseText])

createWriteStream(w, f) ==
  Returned(markAsExists(w, f), [type |-> "Writable", file |-> f])

\* writable.on('finish', ...): this.contents = writable.getContents(),
\* which is false when nothing was written.
onFinish(w, stream) ==
  [w EXCEPT !.mockFiles[stream.file].contents =
     IF stream.written = <<>> THEN JsFalse ELSE Buffer(stream.written)]

(***************************************************************************)
(* The state machine: one action per call                                  *)
(***************************************************************************)
Files == 1..Len(mockFiles)
Created == DOMAIN buckets

Init ==
  /\ buckets = EmptyObject
  /\ mockFiles = <<>>
  /\ streams = <<>>
  /\ ret = [op |-> "new", this |-> Undefined, ok |-> TRUE, val |-> JsUndefined]
  /\ tasks = <<>>

\* The call of op on this ended as r.
Call(op, this, r) ==
  /\ buckets' = r.w.buckets
  /\ mockFiles' = r.w.mockFiles
  /\ ret' = [op |-> op, this |-> this, ok |-> r.ok, val |-> r.val]
  /\ tasks' = tasks

StorageBucket(b) ==
  Call("bucket", Undefined, bucket(World, b)) /\ UNCHANGED streams

BucketFile(b, n, force) ==
  Call("file", Undefined, file(World, b, n, force)) /\ UNCHANGED streams

BucketGetFiles(b, q) ==
  Call("getFiles", Undefined, getFiles(World, b, q)) /\ UNCHANGED streams

BucketDeleteFiles(b, q) ==
  Call("deleteFiles", Undefined, deleteFiles(World, b, q)) /\ UNCHANGED streams

\* m is one of the seven method names.
\* method is the name given, whether or not it is one of the seven.
FileMockErrorOnce(f, method, e) ==
  Call("mockErrorOnce", f, mockErrorOnce(World, f, method, e))
    /\ UNCHANGED streams

\* method is the name given, <<>> when none is.
FileMockReset(f, method) ==
  Call("mockReset", f, mockReset(World, f, method)) /\ UNCHANGED streams

FileDelete(f) == Call("delete", f, delete(World, f)) /\ UNCHANGED streams

FileExists(f) == Call("exists", f, exists(World, f)) /\ UNCHANGED streams

FileSetMetadata(f, m) ==
  Call("setMetadata", f, setMetadata(World, f, m)) /\ UNCHANGED streams

FileGetMetadata(f) ==
  Call("getMetadata", f, getMetadata(World, f)) /\ UNCHANGED streams

FileGetSignedUrl(f) ==
  Call("getSignedUrl", f, getSignedUrl(World, f)) /\ UNCHANGED streams

FileDownload(f) == Call("download", f, download(World, f)) /\ UNCHANGED streams

FileSave(f, d, o) == Call("save", f, save(World, f, d, o)) /\ UNCHANGED streams

FileCreateReadStream(f) ==
  Call("createReadStream", f, createReadStream(World, f)) /\ UNCHANGED streams

\* A stream is open from createWriteStream to its 'finish' event or to its
\* destruction; ended tells that end() was called on it.
FileCreateWriteStream(f) ==
  /\ Call("createWriteStream", f, createWriteStream(World, f))
  /\ streams' = Append(streams, [file |-> f, written |-> <<>>, ended |-> FALSE])

\* writable.write(chunk) on the i-th open stream: after end() the write
\* fails and the stream is destroyed, never to raise 'finish'.
StreamWrite(i, c) ==
  /\ streams' = IF streams[i].ended
                THEN SubSeq(streams, 1, i - 1)
                       \o SubSeq(streams, i + 1, Len(streams))
                ELSE [streams EXCEPT ![i].written = @ \o c]
  /\ ret' = [op |-> "write", this |-> streams[i].file,
             ok |-> ~streams[i].ended,
             val |-> IF streams[i].ended
                    THEN [error |-> "ERR_STREAM_WRITE_AFTER_END"]
                    ELSE JsUndefined]
  /\ UNCHANGED <<buckets, mockFiles, tasks>>

\* writable.end() on the i-th open stream: it returns before the stream
\* has finished.
StreamEnd(i) ==
  /\ streams' = [streams EXCEPT ![i].ended = TRUE]
  /\ ret' = [op |-> "end", this |-> streams[i].file, ok |-> TRUE,
             val |-> JsUndefined]
  /\ UNCHANGED <<buckets, mockFiles, tasks>>

\* The 'finish' event of the i-th open stream, raised once end() was called
StreamFinish(i) ==
  /\ streams[i].ended
  /\ buckets' = onFinish(World, streams[i]).buckets
  /\ mockFiles' = onFinish(World, streams[i]).mockFiles
  /\ streams' = SubSeq(streams, 1, i - 1) \o SubSeq(streams, i + 1, Len(streams))
  /\ ret' = [op |-> "finish", this |-> streams[i].file, ok |-> TRUE,
             val |-> JsUndefined]
  /\ tasks' = tasks

\* The calls of put, upload and copy that await, in the order in which
\* their continuations are to run: each await puts the function behind
\* those that await already.
Idle == tasks = <<>>

\* What the one who called the task t has got after the part r: the value
\* or the error once t has settled, nothing as long as it awaits.
TaskRet(t, r) ==
  IF r.pc = "resolved"
  THEN [op |-> t.op, this |-> t.this, ok |-> TRUE, val |-> r.val]
  ELSE IF r.pc = "rejected"
  THEN [op |-> t.op, this |-> t.this, ok |-> FALSE, val |-> r.error]
  ELSE [op |-> "await", this |-> t.this, ok |-> TRUE, val |-> JsUndefined]

\* The call of t has run its first part r.
Started(t, r) ==
  /\ buckets' = r.w.buckets
  /\ mockFiles' = r.w.mockFiles
  /\ tasks' = IF Awaiting(r) THEN Append(tasks, t) ELSE tasks
  /\ ret' = TaskRet(t, r)
  /\ UNCHANGED streams

\* The microtask that resumes the task awaiting the longest has run the
\* part r and left it as t.
Resumed(t, r) ==
  /\ buckets' = r.w.buckets
  /\ mockFiles' = r.w.mockFiles
  /\ tasks' = IF Awaiting(r) THEN Append(Tail(tasks), t) ELSE Tail(tasks)
  /\ ret' = TaskRet(t, r)
  /\ UNCHANGED streams

\* bucket.put(n, c, m) called: it runs to its first await, or to its end.
PutStart(b, n, c, m) ==
  LET r == putStart(World, b, n, c, m)
  IN Started(Task(b, n, c, m, r), r)

PutResume ==
  /\ ~Idle
  /\ Head(tasks).op = "put"
  /\ LET t == Head(tasks)
         r == putResume(World, t)
     IN Resumed(Task(t.bucket, t.name, t.contents, t.metadata, r), r)

\* A call of upload that awaits: the put it has called, or that put's end.
UploadTask(b, n, c, m, r) ==
  [op |-> "upload", this |-> Undefined, bucket |-> b, name |-> n,
   contents |-> c, metadata |-> m, pc |-> r.pc, got |-> r.got, val |-> r.val]

\* bucket.upload(filePath, options) called, with disk at filePath.
BucketUpload(b, filePath, options, disk) ==
  LET r == uploadStart(World, b, filePath, options, disk)
  IN Started(UploadTask(b, uploadName(filePath, options), disk,
                        uploadMetadata(options), r), r)

UploadResume ==
  /\ ~Idle
  /\ Head(tasks).op = "upload"
  /\ LET t == Head(tasks)
         r == uploadResume(World, t)
     IN Resumed(UploadTask(t.bucket, t.name, t.contents, t.metadata, r), r)

\* file.copy(destination, options) called.
CopyStart(f, destination, options) ==
  LET r == copyStart(World, f, destination, options)
  IN Started(CopyTask(f, destination, options, r), r)

CopyResume ==
  /\ ~Idle
  /\ Head(tasks).op = "copy"
  /\ LET t == Head(tasks)
         r == copyResume(World, t)
     IN Resumed(CopyTask(t.this, t.destination, t.options, r), r)

(***************************************************************************)
(* Inputs and specifications                                               *)
(***************************************************************************)
RECURSIVE SumLen(_, _)
SumLen(queues, ms) ==
  IF ms = {} THEN 0
  ELSE LET m == CHOOSE x \in ms : TRUE
       IN Len(queues[m]) + SumLen(queues, ms \ {m})

RECURSIVE Queued(_, _)
\* The mock errors pending on the first n MockFiles.
Queued(fs, n) ==
  IF n = 0 THEN 0
  ELSE SumLen(fs[n].mockQueues, Mockable)
         + SumLen([i \in 1..Len(fs[n].addedQueues) |-> fs[n].addedQueues[i].value],
                  1..Len(fs[n].addedQueues))
         + Len(fs[n].queuesProto.items) + Queued(fs, n - 1)

NoOptions == EmptyObject
Queries(prefixes) == {EmptyObject} \cup {[prefix |-> p] : p \in prefixes}
Options(metadatas) == {NoOptions} \cup {[metadata |-> m] : m \in metadatas}
Destinations(names) ==
  {ToName(n) : n \in names} \cup {ToBucket(b) : b \in Created}
    \cup {ToFile(g) : g \in Files}

(* Spec: the life of objects.  Every call but fault injection on the       *)
(* handles of one name of one bucket, copied to a second name; a call of   *)
(* put or copy that awaits is resumed after any calls made meanwhile.      *)
Datas == {Buffer(<<65>>)}

Next ==
  \/ \E b \in BucketNames : StorageBucket(b)
  \/ \E b \in Created, n \in OneName, force \in BOOLEAN :
       BucketFile(b, n, force) /\ Len(mockFiles') <= MaxFiles
  \/ \E b \in Created, n \in OneName, c \in Datas \cup {JsUndefined} :
       Len(tasks) < MaxPending /\ PutStart(b, n, c, JsUndefined)
         /\ Len(mockFiles') <= MaxFiles
  \/ \E b \in Created, q \in Queries({<<"a">>}) : BucketGetFiles(b, q)
  \/ \E f \in Files : FileDelete(f)
  \/ \E f \in Files : FileExists(f)
  \/ \E f \in Files : FileSetMetadata(f, EmptyObject)
  \/ \E f \in Files : FileGetMetadata(f)
  \/ \E f \in Files : FileGetSignedUrl(f)
  \/ \E f \in Files : FileDownload(f)
  \/ \E f \in Files, d \in Datas : FileSave(f, d, NoOptions)
  \/ \E f \in Files :
       Len(tasks) < MaxPending /\ CopyStart(f, ToName(<<"2">>), NoOptions)
  \/ \E f \in Files : FileCreateReadStream(f)
  \/ \E f \in Files : Len(streams) < MaxStreams /\ FileCreateWriteStream(f)
  \/ \E i \in 1..Len(streams), c \in {<<65>>} :
       (streams[i].ended \/ Len(streams[i].written) < MaxWritten)
         /\ StreamWrite(i, c)
  \/ \E i \in 1..Len(streams) : StreamEnd(i)
  \/ \E i \in 1..Len(streams) : StreamFinish(i)
  \/ PutResume
  \/ CopyResume /\ Len(mockFiles') <= MaxFiles

Spec == Init /\ [][Next]_vars

(* SpecFaults: fault injection.  Two handles of one name, every mockable   *)
(* method, two errors.                                                     *)
NextFaults ==
  \/ \E b \in BucketNames : StorageBucket(b)
  \/ \E b \in Created, n \in OneName, force \in BOOLEAN :
       BucketFile(b, n, force) /\ Len(mockFiles') <= MaxFiles
  \/ \E f \in Files, m \in Mockable, e \in Errors :
       Queued(mockFiles, Len(mockFiles)) < MaxQueued
         /\ FileMockErrorOnce(f, MockableName[m], e)
  \/ \E f \in Files, m \in Mockable : FileMockReset(f, MockableName[m])
  \/ \E f \in Files : FileMockReset(f, <<>>)
  \/ \E f \in Files : FileDelete(f)
  \/ \E f \in Files : FileExists(f)
  \/ \E f \in Files : FileSetMetadata(f, EmptyObject)
  \/ \E f \in Files : FileGetMetadata(f)
  \/ \E f \in Files : FileGetSignedUrl(f)
  \/ \E f \in Files : FileDownload(f)
  \/ \E f \in Files, d \in Datas : FileSave(f, d, NoOptions)
  \/ \E f \in Files : FileCreateReadStream(f)

SpecFaults == Init /\ [][NextFaults]_vars

(* SpecMeta: metadata.  One object, made present by a forced lookup, and   *)
(* every metadata object over two top-level keys and two custom keys.      *)
AllMetadatas ==
  LET Maps(keys) == UNION {[ks -> {1, 2}] : ks \in SUBSET keys}
      top == Maps({"foo", "bar"})
      custom == Maps({"a", "b"})
  IN top \cup {Spread(t, [metadata |-> c]) : t \in top, c \in custom}

NextMeta ==
  \/ \E b \in BucketNames : StorageBucket(b)
  \/ \E b \in Created, n \in OneName :
       BucketFile(b, n, TRUE) /\ Len(mockFiles') <= MaxFiles
  \/ \E f \in Files, m \in AllMetadatas : FileSetMetadata(f, m)
  \/ \E f \in Files : FileGetMetadata(f)
  \/ \E f \in Files, d \in Datas, o \in Options(AllMetadatas) : FileSave(f, d, o)

SpecMeta == Init /\ [][NextMeta]_vars

(* SpecCopy: copy from the handles of one name of the first bucket to a   *)
(* second name and to a second bucket, with metadata and with the contents *)
(* an empty write stream leaves, and with calls between its parts.         *)
CopyBuckets == {"b1", "b2"}
SavedMetadatas == {[foo |-> 1, bar |-> 1, metadata |-> [a |-> 1]]}
CopyMetadatas == {[foo |-> 2, metadata |-> [b |-> 2]]}

NextCopy ==
  \/ \E b \in CopyBuckets : StorageBucket(b)
  \/ \E b \in Created \cap BucketNames, n \in OneName :
       BucketFile(b, n, FALSE) /\ Len(mockFiles') <= MaxFiles
  \/ \E f \in Files, d \in Datas, m \in SavedMetadatas :
       FileSave(f, d, [metadata |-> m])
  \/ \E f \in Files,
        dest \in {ToName(<<"2">>)} \cup {ToBucket(b) : b \in Created \ BucketNames},
        o \in Options(CopyMetadatas) :
       Len(tasks) < MaxPending /\ CopyStart(f, dest, o)
  \/ \E f \in Files : Len(streams) < MaxStreams /\ FileCreateWriteStream(f)
  \/ \E i \in 1..Len(streams) : StreamEnd(i)
  \/ \E i \in 1..Len(streams) : StreamFinish(i)
  \/ CopyResume /\ Len(mockFiles') <= MaxFiles

SpecCopy == Init /\ [][NextCopy]_vars

(* SpecList: listing.  Names that are array indices and names that are     *)
(* not, inserted, replaced and deleted in every order.                     *)
MaxListed == 3     \* MockFile instances constructed under SpecList
ListNames == {<<"2">>, <<"1", "0">>, <<"a">>, <<"a", "2">>}
ListPrefixes == {<<>>, <<"1">>, <<"a">>, <<"a", "2">>, <<"b">>}

NextList ==
  \/ \E b \in BucketNames : StorageBucket(b)
  \/ \E b \in Created, n \in ListNames, force \in BOOLEAN :
       BucketFile(b, n, force) /\ Len(mockFiles') <= MaxListed
  \/ \E b \in Created, n \in ListNames :
       PutStart(b, n, JsUndefined, JsUndefined) /\ Len(mockFiles') <= MaxListed
  \/ \E f \in Files : FileDelete(f)
  \/ \E f \in Files, d \in Datas : FileSave(f, d, NoOptions)
  \/ \E b \in Created, q \in Queries(ListPrefixes) : BucketGetFiles(b, q)
  \/ \E b \in Created, q \in Queries(ListPrefixes) : BucketDeleteFiles(b, q)

SpecList == Init /\ [][NextList]_vars

(* SpecData: contents.  Buffers and strings saved and downloaded through   *)
(* two handles of one name.                                                *)
AllDatas ==
  {Buffer(<<>>), Buffer(<<65>>), Buffer(<<65, 66>>), Buffer(<<255>>),
   String(<<>>), String(<<65>>), String(<<233>>), String(<<8364, 65>>)}

NextData ==
  \/ \E b \in BucketNames : StorageBucket(b)
  \/ \E b \in Created, n \in OneName, force \in BOOLEAN :
       BucketFile(b, n, force) /\ Len(mockFiles') <= MaxFiles
  \/ \E f \in Files : FileDelete(f)
  \/ \E f \in Files : FileDownload(f)
  \/ \E f \in Files, d \in AllDatas : FileSave(f, d, NoOptions)
  \/ \E f \in Files, m \in {"save", "download"} :
       Queued(mockFiles, Len(mockFiles)) < MaxQueued
         /\ FileMockErrorOnce(f, MockableName[m], [error |-> "e1"])

SpecData == Init /\ [][NextData]_vars

(* SpecPut: put over what was there.  One name with a handle that was      *)
(* saved, given metadata and queued errors, then replaced by put; put of   *)
(* the name __proto__ as well; delete and save between the parts of a put. *)
NextPut ==
  \/ \E b \in BucketNames : StorageBucket(b)
  \/ \E b \in Created, n \in OneName, force \in BOOLEAN :
       BucketFile(b, n, force) /\ Len(mockFiles') <= MaxFiles
  \/ \E b \in Created, n \in OneName, c \in {JsUndefined, String(<<233>>)},
        m \in {JsUndefined, [foo |-> 2]} :
       Len(tasks) < MaxPending /\ PutStart(b, n, c, m)
         /\ Len(mockFiles') <= MaxFiles
  \/ \E b \in Created :
       Len(tasks) < MaxPending
         /\ PutStart(b, protoName, Buffer(<<65, 66>>), JsUndefined)
         /\ Len(mockFiles') <= MaxFiles
  \/ \E f \in Files, m \in {"save", "setMetadata"} :
       Queued(mockFiles, Len(mockFiles)) < MaxQueued
         /\ FileMockErrorOnce(f, MockableName[m], [error |-> "e1"])
  \/ \E f \in Files, o \in Options(SavedMetadatas) : FileSave(f, Buffer(<<65>>), o)
  \/ \E f \in Files : FileDelete(f)
  \/ PutResume

SpecPut == Init /\ [][NextPut]_vars

(* SpecUpload: upload.  Paths whose basename is the name, options with a   *)
(* destination that is a name, no name or a File, what is on the disk at   *)
(* the path, and a delete between the parts; the name metadata, with a     *)
(* MockFile as the prototype of files.                                     *)
NextUpload ==
  \/ \E b \in BucketNames : StorageBucket(b)
  \/ \E b \in Created :
       Len(tasks) < MaxPending /\ PutStart(b, protoName, JsUndefined, JsUndefined)
         /\ Len(mockFiles') <= MaxFiles
  \/ \E b \in Created,
        p \in {<<"d", "/", "a">>, <<"a", "/">>},
        o \in {NoOptions,
               [destination |-> ToName(<<"a">>), metadata |-> [foo |-> 2]],
               [destination |-> ToName(metadataName)],
               [destination |-> ToName(<<>>)],
               [destination |-> ToClientFile]},
        d \in {Buffer(<<65, 66>>), NoEntry} :
       Len(tasks) < MaxPending /\ BucketUpload(b, p, o, d)
         /\ Len(mockFiles') <= MaxFiles
  \/ \E f \in Files : FileSetMetadata(f, [metadata |-> [b |-> 2]])
  \/ \E f \in Files : FileDelete(f)
  \/ UploadResume

SpecUpload == Init /\ [][NextUpload]_vars

(* SpecAsync: calls of put started without awaiting the one before, their  *)
(* parts run in the order of the microtask queue.                          *)
MaxTasks == 2
AsyncContents == {JsUndefined, Buffer(<<65>>), Buffer(<<66>>)}
AsyncMetadatas == {JsUndefined, [foo |-> 1], [bar |-> 2]}

NextAsync ==
  \/ \E b \in BucketNames : StorageBucket(b)
  \/ \E b \in Created, n \in FileNames, c \in AsyncContents, m \in AsyncMetadatas :
       Len(tasks) < MaxTasks /\ PutStart(b, n, c, m)
         /\ Len(mockFiles') <= MaxFiles
  \/ PutResume

SpecAsync == Init /\ [][NextAsync]_vars

(* SpecSnapshot: copy with calls of other tasks between its parts.  The   *)
(* handles are saved with contents and metadata that go together: A with   *)
(* foo 1, B with foo 2.                                                    *)
SnapshotSaves == {<<Buffer(<<65>>), [foo |-> 1]>>, <<Buffer(<<66>>), [foo |-> 2]>>}

NextSnapshot ==
  \/ \E b \in BucketNames : StorageBucket(b)
  \/ \E b \in Created, n \in OneName :
       BucketFile(b, n, FALSE) /\ Len(mockFiles') <= MaxFiles
  \/ \E f \in Files, x \in SnapshotSaves :
       FileSave(f, x[1], [metadata |-> x[2]])
  \/ \E f \in Files :
       /\ Len(tasks) < MaxTasks
       /\ CopyStart(f, ToName(<<"2">>), NoOptions)
  \/ CopyResume /\ Len(mockFiles') <= MaxFiles

SpecSnapshot == Init /\ [][NextSnapshot]_vars

(* SpecPutDelete: put with calls of other tasks between its parts: delete *)
(* and save on the MockFiles of the name.                                  *)
NextPutDelete ==
  \/ \E b \in BucketNames : StorageBucket(b)
  \/ \E b \in Created, n \in FileNames, c \in {JsUndefined, Buffer(<<65>>)},
          m \in {JsUndefined, [foo |-> 1]} :
       Len(tasks) < MaxTasks /\ PutStart(b, n, c, m)
         /\ Len(mockFiles') <= MaxFiles
  \/ PutResume
  \/ \E f \in Files : FileDelete(f)
  \/ \E f \in Files : FileSave(f, Buffer(<<66>>), NoOptions)

SpecPutDelete == Init /\ [][NextPutDelete]_vars

(* SpecLocal: what a call on one name does to the others.  Handles of one *)
(* name of the first bucket; put, bare or with contents and metadata, on   *)
(* two names of the first bucket and one of the second; copies to a second *)
(* name and to the second bucket; an error pending at most, for download   *)
(* or getMetadata; calls between the parts of a put and of a copy.         *)
NextLocal ==
  \/ \E b \in CopyBuckets : StorageBucket(b)
  \/ \E b \in Created \cap BucketNames, n \in OneName :
       BucketFile(b, n, FALSE) /\ Len(mockFiles') <= MaxFiles
  \/ \E b \in Created \cap BucketNames, n \in FileNames :
       Len(tasks) + Len(streams) < MaxLocalOpen
         /\ PutStart(b, n, Buffer(<<65>>), [foo |-> 1])
         /\ Len(mockFiles') <= MaxFiles
  \/ \E b \in Created \ BucketNames, n \in OneName :
       PutStart(b, n, JsUndefined, JsUndefined) /\ Len(mockFiles') <= MaxFiles
  \/ PutResume
  \/ \E f \in Files, m \in {"download", "getMetadata"} :
       Queued(mockFiles, Len(mockFiles)) < MaxFrameQueued
         /\ FileMockErrorOnce(f, MockableName[m], [error |-> "e1"])
  \/ \E f \in Files : FileSave(f, Buffer(<<65>>), NoOptions)
  \/ \E f \in Files : FileSetMetadata(f, EmptyObject)
  \/ \E f \in Files : FileDelete(f)
  \/ \E f \in Files,
        dest \in {ToName(<<"2">>)} \cup {ToBucket(b) : b \in Created \ BucketNames} :
       Len(tasks) + Len(streams) < MaxLocalOpen /\ CopyStart(f, dest, NoOptions)
  \/ \E f \in Files :
       Len(tasks) + Len(streams) < MaxLocalOpen /\ FileCreateWriteStream(f)
  \/ \E i \in 1..Len(streams) : StreamEnd(i)
  \/ \E i \in 1..Len(streams) : StreamFinish(i)
  \/ CopyResume /\ Len(mockFiles') <= MaxFiles

SpecLocal == Init /\ [][NextLocal]_vars

(* SpecInherited: names that every object inherits a property for.  One  *)
(* bucket, the names constructor, __proto__ and contents, the bucket name  *)
(* constructor, and calls between the parts of a put and of a copy.        *)
InheritedNames == {constructorName, protoName}
InheritedBuckets == {"b1", "constructor"}

NextInherited ==
  \/ \E b \in InheritedBuckets : StorageBucket(b)
  \/ \E b \in Created, n \in InheritedNames \cup {contentsName}, force \in BOOLEAN :
       BucketFile(b, n, force) /\ Len(mockFiles') <= MaxFiles
  \/ \E b \in Created, n \in InheritedNames, c \in {JsUndefined, Buffer(<<65>>)} :
       Len(tasks) < MaxPending /\ PutStart(b, n, c, JsUndefined)
         /\ Len(mockFiles') <= MaxFiles
  \/ \E b \in Created : BucketGetFiles(b, NoOptions)
  \/ \E f \in Files :
       Queued(mockFiles, Len(mockFiles)) < MaxFrameQueued
         /\ FileMockErrorOnce(f, MockableName["download"], [error |-> "e1"])
  \/ \E f \in Files : FileDelete(f)
  \/ \E f \in Files : FileExists(f)
  \/ \E f \in Files : FileDownload(f)
  \/ \E f \in Files : FileSave(f, Buffer(<<66>>), NoOptions)
  \/ \E f \in Files :
       Len(tasks) < MaxPending /\ CopyStart(f, ToName(<<"a">>), NoOptions)
  \/ PutResume
  \/ CopyResume /\ Len(mockFiles') <= MaxFiles

SpecInherited == Init /\ [][NextInherited]_vars

(* SpecStreams: streams.  Two handles of one name, two write streams open *)
(* at a time, with save, delete and an error queued for save in between.   *)
MaxOpen == 2       \* write streams open at a time under SpecStreams

NextStreams ==
  \/ \E b \in BucketNames : StorageBucket(b)
  \/ \E b \in Created, n \in OneName :
       BucketFile(b, n, FALSE) /\ Len(mockFiles') <= MaxFiles
  \/ \E f \in Files :
       Queued(mockFiles, Len(mockFiles)) < MaxFrameQueued
         /\ FileMockErrorOnce(f, MockableName["save"], [error |-> "e1"])
  \/ \E f \in Files : FileSave(f, Buffer(<<67>>), NoOptions)
  \/ \E f \in Files : FileDelete(f)
  \/ \E f \in Files : FileExists(f)
  \/ \E f \in Files : FileDownload(f)
  \/ \E f \in Files : FileCreateReadStream(f)
  \/ \E f \in Files : Len(streams) < MaxOpen /\ FileCreateWriteStream(f)
  \/ \E i \in 1..Len(streams), c \in {<<65>>, <<66>>} :
       (streams[i].ended \/ Len(streams[i].written) < MaxWritten)
         /\ StreamWrite(i, c)
  \/ \E i \in 1..Len(streams) : StreamEnd(i)
  \/ \E i \in 1..Len(streams) : StreamFinish(i)

SpecStreams == Init /\ [][NextStreams]_vars

(* SpecMock: the names mockReset and mockErrorOnce are given.  One handle,  *)
(* a method name, names that are no key of mockQueues, and names that      *)
(* mockQueues inherits a property for.                                     *)
MockMethods ==
  {MockableName["save"], <<"c", "o", "p", "y">>, <<"1">>, <<"0">>, protoName,
   constructorName, <<"l", "e", "n", "g", "t", "h">>}

NextMock ==
  \/ \E b \in BucketNames : StorageBucket(b)
  \/ \E b \in Created, n \in OneName :
       BucketFile(b, n, TRUE) /\ Len(mockFiles') <= MaxFiles
  \/ \E f \in Files, m \in MockMethods \cup {<<>>} : FileMockReset(f, m)
  \/ \E f \in Files, m \in MockMethods :
       Queued(mockFiles, Len(mockFiles)) < MaxQueued
         /\ FileMockErrorOnce(f, m, [error |-> "e1"])
  \/ \E f \in Files : FileSave(f, Buffer(<<65>>), NoOptions)

SpecMock == Init /\ [][NextMock]_vars

(***************************************************************************)
(* Claims                                                                  *)
(***************************************************************************)
WorldAfter == [buckets |-> buckets', mockFiles |-> mockFiles']

\* The step is the call of op on this, and r is how it ended.
Did(op, this, r) ==
  /\ ret'.op = op
  /\ ret'.this = this
  /\ ret'.ok = r.ok
  /\ ret'.val = r.val
  /\ buckets' = r.w.buckets
  /\ mockFiles' = r.w.mockFiles

\* What the latest call was made on.
IsAt(fs, f, b, n) == fs[f].bucket = b /\ fs[f].name = n
\* The name n is a key of the mapping of bucket b.
Member(w, b, n) == Has(w.buckets[b].files, n)

\* exists() called on what file(n) of bucket b returns: what is no MockFile
\* has no such method.
ExistsOf(w, b, n) ==
  LET h == file(w, b, n, FALSE)
  IN IF h.val \in 1..Len(h.w.mockFiles) THEN exists(h.w, h.val)
     ELSE Threw(h.w, TypeError)

SavedOn(b, n) ==
  ret'.op = "save" /\ ret'.ok /\ IsAt(mockFiles', ret'.this, b, n)
CopiedTo(b, n) ==
  ret'.op = "copy" /\ ret'.ok /\ IsAt(mockFiles', ret'.val[1], b, n)
PutAt(b, n) ==
  ret'.op = "put" /\ ret'.ok /\ ret'.val \in 1..Len(mockFiles')
    /\ IsAt(mockFiles', ret'.val, b, n)
DeletedOn(b, n) ==
  ret'.op = "delete" /\ ret'.ok /\ IsAt(mockFiles', ret'.this, b, n)
\* The step has run a part of a call that awaits, from the call itself or
\* from a resumption: the call is left awaiting, the last of the queue, or
\* it has settled and left the head of the queue.
LeftAwaiting == ret'.op = "await" /\ tasks' # <<>>
SettledAtResume ==
  ret'.op \in {"put", "upload", "copy"} /\ Len(tasks') = Len(tasks) - 1

\* The step has run a part of a put or an upload of the name n of bucket
\* b, or of a copy to it, and left the call awaiting.
AwaitsAt(b, n) ==
  /\ ret'.op = "await"
  /\ LET t == tasks'[Len(tasks')]
     IN IF t.op = "copy"
        THEN /\ targetBucket(World, t.this, t.destination) = b
             /\ targetFileName(World, t.this, t.destination) = n
        ELSE t.bucket = b /\ t.name = n
\* The calls that reach markAsExists, or an assignment to files[name], for
\* the name n of bucket b, whether or not they go on to succeed.
MakesMember(b, n) ==
  \/ AwaitsAt(b, n)
  \/ ret'.op \in {"save", "createWriteStream"}
       /\ IsAt(mockFiles', ret'.this, b, n)
  \/ ret'.op \in {"put", "file"} /\ ret'.ok /\ ret'.val \in 1..Len(mockFiles')
       /\ IsAt(mockFiles', ret'.val, b, n)
  \/ ret'.op = "copy" /\ (ret'.ok => IsAt(mockFiles', ret'.val[1], b, n))

\* The copy to the name has resolved and no call was made between the part
\* of it that saved the target and its return.
CopiedDirectlyTo(b, n) == CopiedTo(b, n) /\ ret.op = "await"

C1_Over(names, Copied(_, _)) ==
  \A b \in DOMAIN buckets', n \in names :
    LET before == b \in DOMAIN buckets /\ ExistsOf(World, b, n).val = <<TRUE>>
        after == ExistsOf(WorldAfter, b, n)
    IN /\ after.ok
       /\ after.val = <<Member(WorldAfter, b, n)>>
       /\ (SavedOn(b, n) \/ Copied(b, n) \/ PutAt(b, n)) => after.val = <<TRUE>>
       /\ DeletedOn(b, n) => after.val = <<FALSE>>
       /\ (~before /\ ~MakesMember(b, n)) => after.val = <<FALSE>>

\* C1: exists() on a handle from file(name) is false as long as no call has
\* made the name a member, true right after a successful save on the name,
\* a successful copy to it or a put of it, and false right after a successful
\* delete, whatever calls came before.
C1_ExistenceLifecycle ==
  [][C1_Over(FileNames \cup InheritedNames, CopiedTo)]_calls

\* The same for the names that are no property of Object.prototype, and for
\* a copy that no call came between: a delete of the target between the
\* save of a copy and its return leaves exists() false as the copy resolves.
C1_ExistenceLifecycleOfOwnNames == [][C1_Over(FileNames, CopiedDirectlyTo)]_calls

\* A copy to an own name has resolved with no call between its parts.
C1_CopiedWitness ==
  /\ ret.op = "copy" /\ ret.ok
  /\ mockFiles[ret.val[1]].name \in FileNames
  /\ exists(World, ret.val[1]).val = <<TRUE>>

\* A delete has succeeded on the handle that put("constructor", "A") made,
\* the name is no key of files any more, and exists() on that handle is
\* true.
C1_Witness ==
  /\ ret.op = "delete" /\ ret.ok
  /\ mockFiles[ret.this].name = constructorName
  /\ mockFiles[ret.this].contents = Buffer(<<65>>)
  /\ ~Member(World, mockFiles[ret.this].bucket, constructorName)
  /\ exists(World, ret.this).val = <<TRUE>>

\* A delete has succeeded on a name for which a second handle was made, and
\* exists() on a fresh lookup of the name is false.
C1_OwnNamesWitness ==
  /\ ret.op = "delete" /\ ret.ok
  /\ Len(mockFiles) = 2
  /\ mockFiles[1].name = mockFiles[2].name
  /\ mockFiles[ret.this].contents = Buffer(<<65>>)
  /\ ExistsOf(World, mockFiles[ret.this].bucket, mockFiles[ret.this].name).val
       = <<FALSE>>
\* The step is a call of the mockable method ret'.op on the handle ret'.this.
MockableCall == ret'.op \in Mockable
QueueBefore == mockFiles[ret'.this].mockQueues[ret'.op]
QueueAfter == mockFiles'[ret'.this].mockQueues[ret'.op]
ThisMember ==
  Member(World, mockFiles[ret'.this].bucket, mockFiles[ret'.this].name)
ThisNoSuchFile ==
  NoSuchFile(mockFiles[ret'.this].bucket, mockFiles[ret'.this].name)
\* The names files can inherit a property for: from Object.prototype, and
\* from a MockFile once an assignment to files.__proto__ has made one the
\* prototype.
Inheritable == ObjectPrototype \cup MockFilePrototype \cup {contentsName}
\* The call was made on a handle of such a name.
ThisInherited ==
  ret'.this \in Files /\ mockFiles[ret'.this].name \in Inheritable
ErrorEntry(e) == [type |-> "error", error |-> e]

C2_Step ==
  /\ MockableCall =>
       /\ IF QueueBefore # <<>>
          THEN /\ ~ret'.ok
               /\ ret'.val = Head(QueueBefore).error
               /\ QueueAfter = Tail(QueueBefore)
          ELSE /\ QueueAfter = <<>>
               /\ ret'.ok <=> (ret'.op \in {"exists", "save"} \/ ThisMember)
               /\ ~ret'.ok => ret'.val = ThisNoSuchFile
       /\ \A g \in Files, m \in Mockable :
            (g # ret'.this \/ m # ret'.op)
              => mockFiles'[g].mockQueues[m] = mockFiles[g].mockQueues[m]
  /\ ret'.op = "mockErrorOnce" =>
       \E m \in Mockable, e \in Errors :
         mockFiles' = [mockFiles EXCEPT ![ret'.this].mockQueues[m] =
                         mockFiles[ret'.this].mockQueues[m] \o <<ErrorEntry(e)>>]

\* C2: every mockErrorOnce(op, e) puts e at the end of the handle's queue for
\* op and touches no other queue; a call of op with a non-empty queue fails
\* with the error at the head and removes exactly that entry; a call of op
\* with an empty queue leaves it empty and succeeds or fails with 'No such
\* file' according to the membership of the name only.  Hence errors e1..eN
\* queued on an empty queue fail the next N calls in that order, and call
\* N+1 behaves as if nothing had been queued.
C2_SingleShotFifo == [][C2_Step]_calls

\* Two different errors were queued for save on one handle; the first call
\* has failed with the first of them and the second is now at the head.
C2_Witness ==
  /\ ret.op = "save" /\ ~ret.ok /\ ret.val = [error |-> "e1"]
  /\ mockFiles[ret.this].mockQueues["save"] = <<ErrorEntry([error |-> "e2"])>>

C3_Step ==
  /\ (MockableCall /\ QueueBefore # <<>>) =>
       /\ ~ret'.ok /\ ret'.val \in Errors
       /\ buckets' = buckets
       /\ streams' = streams
       /\ mockFiles' = [mockFiles EXCEPT
                          ![ret'.this].mockQueues[ret'.op] = Tail(QueueBefore)]
       /\ \A g \in Files :
            /\ mockFiles'[g].contents = mockFiles[g].contents
            /\ mockFiles'[g].metadata = mockFiles[g].metadata
       /\ \A b \in Created, n \in OneName :
            Member(WorldAfter, b, n) <=> Member(World, b, n)
  /\ (ret'.op = "save" /\ QueueBefore = <<>>) =>
       /\ ret'.ok
       /\ Member(WorldAfter, mockFiles[ret'.this].bucket, mockFiles[ret'.this].name)

\* C3: a call of exists, delete, download, save, getSignedUrl, setMetadata or
\* getMetadata that fails with an injected error changes nothing but its own
\* queue, which loses its head: contents and metadata of every handle and the
\* membership of every name stay as they were.  A save failing by injection
\* on an absent name leaves it absent, and a save with nothing queued makes
\* it present.
C3_InjectedFailureChangesNothing == [][C3_Step]_calls

\* The same for the names that files inherits no property for.
C3_InjectedFailureChangesNothingOfOwnNames == [][ThisInherited \/ C3_Step]_calls

\* A save with nothing queued has succeeded on the handle that
\* put("__proto__") made, and the name is no key of files.
C3_Witness ==
  /\ ret.op = "save" /\ ret.ok
  /\ mockFiles[ret.this].name = protoName
  /\ mockFiles[ret.this].contents = Buffer(<<66>>)
  /\ mockFiles[ret.this].mockQueues["save"] = <<>>
  /\ ~Member(World, mockFiles[ret.this].bucket, protoName)

\* A save has failed with the only error queued for it on a name that is
\* not a member, and has left it no member.
C3_OwnNamesWitness ==
  /\ ret.op = "save" /\ ~ret.ok /\ ret.val = [error |-> "e2"]
  /\ mockFiles[ret.this].mockQueues["save"] = <<>>
  /\ ~Member(World, mockFiles[ret.this].bucket, mockFiles[ret.this].name)

MustExist ==
  {"delete", "download", "setMetadata", "getMetadata", "getSignedUrl",
   "createReadStream"}

C4_Step ==
  (/\ ret'.op \in MustExist
   /\ ret'.op \in Mockable => QueueBefore = <<>>
   /\ ~ThisMember)
    => /\ ~ret'.ok
       /\ ret'.val = ThisNoSuchFile
       /\ UNCHANGED <<buckets, mockFiles, streams>>

\* C4: with nothing queued for the method, delete, download, setMetadata,
\* getMetadata, getSignedUrl and createReadStream on a handle whose name is
\* not a member of its bucket fail with 'No such file' and change no
\* membership, contents or metadata; setMetadata does not make the name a
\* member.
C4_NotFoundOnAbsent == [][C4_Step]_calls

\* The same for the names that files inherits no property for.
C4_NotFoundOnAbsentOfOwnNames == [][ThisInherited \/ C4_Step]_calls

\* download has succeeded on the handle that put("constructor", "A") made,
\* after a delete that has left the name no key of files.
C4_Witness ==
  /\ ret.op = "download" /\ ret.ok /\ ret.val = <<Buffer(<<65>>)>>
  /\ mockFiles[ret.this].name = constructorName
  /\ ~Member(World, mockFiles[ret.this].bucket, constructorName)

\* setMetadata has failed with 'No such file' on an absent name while an
\* error was queued for another method of the same handle.
C4_OwnNamesWitness ==
  /\ ret.op = "setMetadata" /\ ~ret.ok
  /\ ret.val = NoSuchFile(mockFiles[ret.this].bucket, mockFiles[ret.this].name)
  /\ ~Member(World, mockFiles[ret.this].bucket, mockFiles[ret.this].name)
  /\ mockFiles[ret.this].mockQueues["save"] # <<>>
\* The bytes save(d) is to store: those of a Buffer, and for the strings of
\* AllDatas their UTF-8 encoding, written out.
BytesOf(d) ==
  IF d.type = "Buffer" THEN d.bytes
  ELSE CASE d.units = <<>> -> <<>>
         [] d.units = <<65>> -> <<65>>
         [] d.units = <<233>> -> <<195, 169>>
         [] d.units = <<8364, 65>> -> <<226, 130, 172, 65>>

C5_Step ==
  \A f \in Files, d \in AllDatas :
    (Did("save", f, save(World, f, d, NoOptions)) /\ ret'.ok
       /\ mockFiles'[f].mockQueues["download"] = <<>>)
      => LET r == download(WorldAfter, f)
         IN /\ r.ok
            /\ r.val = <<Buffer(BytesOf(d))>>
            /\ r.w = WorldAfter

\* C5: whatever the object was before (absent or present, any contents), a
\* successful save(X) followed at once by download() on the same handle, with
\* no download fault queued, returns exactly the bytes X.
C5_SaveDownloadRoundTrip == [][C5_Step]_calls

\* A string of a three-byte and a one-byte character has been saved over
\* the contents of a present object, and download returns its four bytes.
C5_Witness ==
  /\ ret.op = "save" /\ ret.ok
  /\ Len(mockFiles) = 2
  /\ mockFiles[1].contents = Buffer(<<65, 66>>)
  /\ mockFiles[2].contents = Buffer(<<226, 130, 172, 65>>)
  /\ ret.this = 2
  /\ download(World, 2).ok
  /\ download(World, 2).val = <<Buffer(<<226, 130, 172, 65>>)>>

C6_Step ==
  \A i \in 1..Len(streams) :
    (/\ ret'.op = "finish"
     /\ ret'.this = streams[i].file
     /\ WorldAfter = onFinish(World, streams[i])
     /\ Member(WorldAfter, mockFiles[streams[i].file].bucket,
                mockFiles[streams[i].file].name))
      => LET r == download(WorldAfter, streams[i].file)
         IN r.ok /\ r.val = <<Buffer(streams[i].written)>>

\* C6: for every byte sequence Y, the empty one included, a write stream of
\* a handle fed Y and closed, followed by download() on the handle, returns
\* exactly Y.
C6_WriteStreamRoundTrip == [][C6_Step]_calls

\* A write stream has been closed with nothing written, and download on its
\* handle returns false.
C6_Witness ==
  /\ ret.op = "finish"
  /\ download(World, ret.this).ok
  /\ download(World, ret.this).val = <<JsFalse>>

\* The custom sub-map of a metadata object, empty when it has none.
CustomOf(o) == IF "metadata" \in DOMAIN o THEN o["metadata"] ELSE EmptyObject

C7_Step ==
  \A f \in Files, N \in AllMetadatas :
    (Did("setMetadata", f, setMetadata(World, f, N)) /\ ret'.ok)
      => LET M == mockFiles[f].metadata
             R == mockFiles'[f].metadata
         IN /\ ret'.val = <<R>>
            /\ DOMAIN R = (DOMAIN M) \cup (DOMAIN N) \cup {"metadata"}
            /\ \A k \in (DOMAIN R) \ {"metadata"} :
                 R[k] = IF k \in DOMAIN N THEN N[k] ELSE M[k]
            /\ DOMAIN R["metadata"] = (DOMAIN CustomOf(M)) \cup (DOMAIN CustomOf(N))
            /\ \A k \in DOMAIN R["metadata"] :
                 R["metadata"][k] = IF k \in DOMAIN CustomOf(N)
                                    THEN CustomOf(N)[k] ELSE CustomOf(M)[k]
            /\ mockFiles' = [mockFiles EXCEPT ![f].metadata = R]
            /\ buckets' = buckets

\* C7: on a present object with metadata M, setMetadata(N) stores and returns
\* the metadata whose top-level keys are those of M overwritten by those of
\* N and whose custom sub-map is M's overwritten key by key by N's; a
\* top-level or custom key of M that N does not name keeps its value.
C7_SetMetadataMerges == [][C7_Step]_calls

\* setMetadata has left top-level and custom keys of two different calls
\* stored side by side.
C7_Witness ==
  /\ ret.op = "setMetadata" /\ ret.ok
  /\ mockFiles[ret.this].metadata =
       [foo |-> 1, bar |-> 2, metadata |-> [a |-> 1, b |-> 2]]
  /\ ret.val = <<mockFiles[ret.this].metadata>>

C8_Step ==
  \A f \in Files, d \in Datas, o \in Options(AllMetadatas) :
    (Did("save", f, save(World, f, d, o)) /\ ret'.ok)
      => /\ mockFiles'[f].metadata =
              IF o = NoOptions THEN mockFiles[f].metadata ELSE o.metadata
         /\ mockFiles'[f].contents = d
         /\ \A g \in Files \ {f} : mockFiles'[g] = mockFiles[g]

\* C8: after a successful save(data, metadata) the stored metadata is exactly
\* the given metadata, so no top-level or custom key of the old metadata
\* survives unless the given metadata names it; a successful save(data)
\* without metadata leaves the metadata as it was and replaces the contents.
C8_SaveOverwritesMetadata == [][C8_Step]_calls

\* save has stored a metadata object without the custom sub-map every
\* object starts with and setMetadata keeps.
C8_Witness ==
  /\ ret.op = "save" /\ ret.ok
  /\ mockFiles[ret.this].metadata = [foo |-> 1]
  /\ mockFiles[ret.this].contents = Buffer(<<65>>)

\* C9: on a present source with contents C and metadata M and nothing queued,
\* copy(destination, options) run to its end makes the target name present
\* in the target bucket (a name: the source's bucket and that name; a
\* bucket: that bucket and the source's name; a file: its bucket and name)
\* with contents exactly C and metadata M overwritten at the top level by
\* options.metadata, returns that metadata, and leaves the source as it was
\* when the target is another (bucket, name) pair.
C9_CopyResult ==
  \A f \in Files, dest \in Destinations(FileNames), o \in Options(CopyMetadatas) :
    (Idle /\ Member(World, mockFiles[f].bucket, mockFiles[f].name))
      => LET r == copy(World, f, dest, o)
             C == mockFiles[f].contents
             M == mockFiles[f].metadata
             tb == IF dest.type = "string" THEN mockFiles[f].bucket
                   ELSE IF dest.type = "MockBucket" THEN dest.bucket
                   ELSE mockFiles[dest.file].bucket
             tn == IF dest.type = "string" THEN dest.name
                   ELSE IF dest.type = "MockBucket" THEN mockFiles[f].name
                   ELSE mockFiles[dest.file].name
             O == IF o = NoOptions THEN EmptyObject ELSE o.metadata
             R == [k \in (DOMAIN M) \cup (DOMAIN O) |->
                     IF k \in DOMAIN O THEN O[k] ELSE M[k]]
             t == Get(r.w, tb, tn)
         IN /\ r.ok
            /\ Member(r.w, tb, tn)
            /\ r.w.mockFiles[t].contents = C
            /\ r.w.mockFiles[t].metadata = R
            /\ r.val = <<t, R>>
            /\ (tb # mockFiles[f].bucket \/ tn # mockFiles[f].name)
                 => /\ Member(r.w, mockFiles[f].bucket, mockFiles[f].name)
                    /\ r.w.mockFiles[f] = mockFiles[f]

\* copy has failed with a TypeError on a present source whose contents an
\* empty write stream left, after making the target name a member.
C9_Witness ==
  /\ ret.op = "copy" /\ ~ret.ok /\ ret.val = TypeError
  /\ mockFiles[ret.this].contents = JsFalse
  /\ Member(World, mockFiles[ret.this].bucket, mockFiles[ret.this].name)
  /\ \E n \in FileNames :
       /\ n # mockFiles[ret.this].name
       /\ Member(World, mockFiles[ret.this].bucket, n)

\* What getFiles(q) of bucket b is to list, in any order.
Listed(b, q) ==
  LET prefix == IF q = EmptyObject THEN <<>> ELSE q.prefix
  IN {n \in ListNames : Member(World, b, n) /\ startsWith(n, prefix)}
\* The place of the name n in the creation order of the properties of files.
PlaceOf(b, n) ==
  CHOOSE p \in 1..Len(buckets[b].files) : buckets[b].files[p].key = n
\* The files getFiles has returned, and their names.
Result == ret'.val[1]
ResultName(i) == mockFiles[Result[i]].name

C10_Common(b, q) ==
  /\ ret'.ok
  /\ UNCHANGED <<buckets, mockFiles, streams>>
  /\ {ResultName(i) : i \in 1..Len(Result)} = Listed(b, q)
  /\ \A i, j \in 1..Len(Result) : i # j => ResultName(i) # ResultName(j)
  /\ \A i \in 1..Len(Result) :
       /\ Result[i] = Get(World, b, ResultName(i))
       /\ mockFiles[Result[i]].bucket = b

C10_StepInsertionOrder ==
  \A b \in Created, q \in Queries(ListPrefixes) :
    Did("getFiles", Undefined, getFiles(World, b, q))
      => /\ C10_Common(b, q)
         /\ \A i, j \in 1..Len(Result) :
              i < j => PlaceOf(b, ResultName(i)) < PlaceOf(b, ResultName(j))

\* C10 as stated: getFiles({prefix}) returns exactly the members of the
\* bucket whose name starts with prefix, each once, in the order in which
\* their names were inserted; it never fails and changes no state.
C10_ListingInInsertionOrder == [][C10_StepInsertionOrder]_calls

C10_StepPropertyOrder ==
  \A b \in Created, q \in Queries(ListPrefixes) :
    Did("getFiles", Undefined, getFiles(World, b, q))
      => /\ C10_Common(b, q)
         /\ \A i, j \in 1..Len(Result) :
              i < j =>
                LET x == ResultName(i)
                    y == ResultName(j)
                IN IF IsArrayIndex(x) /\ IsArrayIndex(y)
                   THEN ToNumber(x) < ToNumber(y)
                   ELSE IF IsArrayIndex(x) \/ IsArrayIndex(y)
                   THEN IsArrayIndex(x)
                   ELSE PlaceOf(b, x) < PlaceOf(b, y)

\* C10, amended: getFiles({prefix}) returns exactly the members of the bucket
\* whose name starts with prefix, each once; names that are canonical array
\* indices come first, in ascending numeric order, and the other names
\* follow in the order in which they were inserted; a handle only looked up
\* or deleted is not listed; it never fails and changes no state.
C10_ListingInPropertyOrder == [][C10_StepPropertyOrder]_calls

\* getFiles has listed "10" before "a" although "a" was inserted first.
C10_Witness ==
  /\ ret.op = "getFiles" /\ ret.ok
  /\ Len(ret.val[1]) = 2
  /\ mockFiles[ret.val[1][1]].name = <<"1", "0">>
  /\ mockFiles[ret.val[1][2]].name = <<"a">>
  /\ buckets["b1"].files[1].key = <<"a">>
C11_Step ==
  \A b \in Created, q \in Queries(ListPrefixes) :
    (ret'.op = "deleteFiles" /\ Did("deleteFiles", Undefined, deleteFiles(World, b, q)))
      => LET prefix == IF q = EmptyObject THEN <<>> ELSE q.prefix
         IN /\ ret'.ok
            /\ mockFiles' = mockFiles
            /\ streams' = streams
            /\ \A n \in ListNames :
                 /\ Member(WorldAfter, b, n)
                      <=> (Member(World, b, n) /\ ~startsWith(n, prefix))
                 /\ Member(WorldAfter, b, n)
                      => Get(WorldAfter, b, n) = Get(World, b, n)
                 /\ ExistsOf(WorldAfter, b, n).val = <<Member(WorldAfter, b, n)>>
            /\ \A c \in Created \ {b} : buckets'[c] = buckets[c]

\* C11: deleteFiles({prefix}) removes from membership every member whose
\* name starts with prefix (no prefix: every member) and leaves the
\* membership, contents and metadata of every other member unchanged; it
\* succeeds when no name matches; afterwards exists() is false for each
\* removed name and true for each remaining one.
C11_BulkDelete == [][C11_Step]_calls

\* deleteFiles with a prefix has removed one of two members and kept the
\* member whose name does not start with it.
C11_Witness ==
  /\ ret.op = "deleteFiles" /\ ret.ok
  /\ Len(buckets["b1"].files) = 1
  /\ buckets["b1"].files[1].key = <<"2">>
  /\ \E f \in Files : mockFiles[f].name = <<"a", "2">>
                        /\ mockFiles[f].contents = Buffer(<<65>>)
C12_Over(names) ==
  /\ \A b \in DOMAIN buckets : b \in DOMAIN buckets'
  /\ \A b \in DOMAIN buckets' : buckets'[b].name = b
  /\ ret'.op = "bucket" =>
       LET n == ret'.val
       IN /\ ret'.ok
          /\ n \in names
          /\ DOMAIN buckets' = (DOMAIN buckets) \cup {n}
          /\ IF n \in DOMAIN buckets
             THEN buckets'[n] = buckets[n]
             ELSE buckets'[n] = MockBucket(n)
          /\ \A c \in (DOMAIN buckets) \ {n} : buckets'[c] = buckets[c]
          /\ mockFiles' = mockFiles

\* C12: storage.bucket(name) never fails; the first call for a name stores
\* an empty bucket of that name, and every later call returns that bucket
\* with its files as they were.  A bucket is stored under its own name, so
\* there is at most one per name; a bucket once created is never removed;
\* and bucket(name) changes no other bucket.
C12_RegistryIdempotence == [][C12_Over(CopyBuckets \cup InheritedBuckets)]_calls

\* The same for the names that are no property of Object.prototype.
C12_RegistryIdempotenceOfOwnNames == [][C12_Over(CopyBuckets)]_calls

\* bucket("constructor") has returned what is no MockBucket and has stored
\* no bucket, beside a bucket that has a member.
C12_Witness ==
  /\ ret.op = "bucket" /\ ret.ok /\ ret.val = NotABucket
  /\ DOMAIN buckets = {"b1"}
  /\ buckets["b1"].files # <<>>

\* bucket("b1") has been called again after "b1" got a member and "b2" was
\* created, and has returned "b1" with its member.
C12_OwnNamesWitness ==
  /\ ret.op = "bucket" /\ ret.ok /\ ret.val = "b1"
  /\ DOMAIN buckets = {"b1", "b2"}
  /\ buckets["b1"].files # <<>>
  /\ buckets["b2"].files # <<>>
C13_Step ==
  \A b \in Created, n \in OneName :
    (ret'.op = "file" /\ Did("file", Undefined, file(World, b, n, FALSE)))
      => LET first == ret'.val
             again == file(WorldAfter, b, n, FALSE)
             second == again.val
             queued == mockErrorOnce(again.w, first, MockableName["exists"],
                                    [error |-> "e1"])
             called == exists(queued.w, second)
         IN /\ second = first
            /\ mockFiles'[first].mockQueues["exists"] = <<>>
                 => ~called.ok /\ called.val = [error |-> "e1"]

\* C13: two calls of file(name) on one bucket with nothing in between return
\* the same handle, whether the name is a member or absent; so an error
\* queued with mockErrorOnce on the handle of the first lookup is thrown by
\* the method called on the handle of the second.
C13_LookupIdentityStable == [][C13_Step]_calls

\* Two handles of one absent name: an error is queued for exists on the
\* first, and exists on the second has returned false.
C13_Witness ==
  /\ Len(mockFiles) = 2
  /\ mockFiles[1].name = mockFiles[2].name
  /\ mockFiles[1].bucket = mockFiles[2].bucket
  /\ ~Member(World, mockFiles[1].bucket, mockFiles[1].name)
  /\ mockFiles[1].mockQueues["exists"] # <<>>
  /\ ret.op = "exists" /\ ret.this = 2 /\ ret.ok /\ ret.val = <<FALSE>>
NeverChangeMembership ==
  {"exists", "download", "getMetadata", "getSignedUrl", "createReadStream",
   "getFiles", "mockErrorOnce", "mockReset"}

C14_Over(names) ==
  /\ \A b \in Created, n \in names :
       /\ (ret'.op = "file" /\ Did("file", Undefined, file(World, b, n, FALSE)))
            => buckets' = buckets
       /\ (ret'.op = "file" /\ Did("file", Undefined, file(World, b, n, TRUE)))
            => /\ Member(WorldAfter, b, n)
               /\ \A k \in names \ {n} :
                    Member(WorldAfter, b, k) <=> Member(World, b, k)
  /\ ret'.op \in NeverChangeMembership => buckets' = buckets
  /\ \A b \in Created, n \in names :
       /\ (~Member(World, b, n) /\ Member(WorldAfter, b, n))
            => \/ ret'.op \in {"save", "createWriteStream"}
                    /\ IsAt(mockFiles', ret'.this, b, n)
               \/ AwaitsAt(b, n)
               \/ PutAt(b, n)
               \/ ret'.op = "file"
                    /\ Did("file", Undefined, file(World, b, n, TRUE))
               \/ ret'.op = "copy" /\ mockFiles[ret'.this].bucket = b
                    /\ (ret'.ok => IsAt(mockFiles', ret'.val[1], b, n))
       /\ (Member(World, b, n) /\ ~Member(WorldAfter, b, n))
            => ret'.op = "delete" /\ ret'.ok /\ IsAt(mockFiles, ret'.this, b, n)

\* C14: file(name) without forceExists leaves the membership of every bucket
\* unchanged and file(name, _, true) makes the name a member; exists,
\* download, getMetadata, getSignedUrl, createReadStream, getFiles,
\* mockErrorOnce and mockReset never change membership; a name becomes a
\* member only by save, createWriteStream, copy as target, put or forced
\* lookup, and stops being one only by delete.
C14_MembershipFrame == [][C14_Over(FileNames \cup InheritedNames)]_calls

\* The same for the names that are no property of Object.prototype.
C14_MembershipFrameOfOwnNames == [][C14_Over(FileNames)]_calls

\* A forced lookup of "__proto__" has returned what is no MockFile, and the
\* name is no key of files while another name is one.
C14_Witness ==
  /\ ret.op = "file" /\ ret.val = NotAFile
  /\ buckets["b1"].proto = NotAFile
  /\ ~Member(World, "b1", protoName)
  /\ Member(World, "b1", constructorName)
  /\ Get(World, "b1", constructorName) = 1

\* The bytes put(name, c) is to leave: none when c is not given or empty,
\* those of a Buffer, the UTF-8 encoding of a string.
PutBytes(c) ==
  CASE c = JsUndefined -> <<>>
    [] c = String(<<>>) -> <<>>
    [] c = String(<<233>>) -> <<195, 169>>
    [] c = Buffer(<<>>) -> <<>>
    [] c = Buffer(<<65, 66>>) -> <<65, 66>>

\* What put is given: contents and metadata, JsUndefined when not given.
PutContents ==
  {JsUndefined, String(<<>>), String(<<233>>), Buffer(<<>>), Buffer(<<65, 66>>)}
PutMetadatas ==
  {JsUndefined, EmptyObject, [foo |-> 2], [metadata |-> [b |-> 2]]}

C15_Over(names) ==
  \A b \in Created, n \in names, c \in PutContents, m \in PutMetadatas :
    Idle =>
      LET r == put(World, b, n, c, m)
          h == r.w.mockFiles[r.val]
          N == IF m = JsUndefined THEN EmptyObject ELSE m
      IN /\ r.ok
         /\ r.val = Len(mockFiles) + 1
         /\ Len(r.w.mockFiles) = Len(mockFiles) + 1
         /\ \A g \in Files : r.w.mockFiles[g] = mockFiles[g]
         /\ Member(r.w, b, n)
         /\ Get(r.w, b, n) = r.val
         /\ file(r.w, b, n, FALSE) = Returned(r.w, r.val)
         /\ h.name = n /\ h.bucket = b
         /\ h.contents = Buffer(PutBytes(c))
         /\ h.mockQueues = [k \in Mockable |-> <<>>]
         /\ DOMAIN h.metadata = (DOMAIN N) \cup {"metadata"}
         /\ \A k \in (DOMAIN N) \ {"metadata"} : h.metadata[k] = N[k]
         /\ h.metadata["metadata"] = CustomOf(N)

\* C15: put(name, contents?, metadata?) run with nothing in between always
\* succeeds, whatever errors are queued on earlier handles of the name, and
\* leaves the name a member whose object has the given contents (none when
\* not given) and the default metadata {metadata: {}} merged with the given
\* metadata as setMetadata merges; contents, metadata and queued errors of
\* the object that was at the name do not carry over to the handle that put
\* returns and file(name) returns afterwards.
C15_PutReplaces == C15_Over(OneName \cup InheritedNames)

\* The same for the names that are no property of Object.prototype.
C15_PutReplacesOfOwnNames == C15_Over(OneName)

\* put("__proto__", "AB") has returned a new object with these contents, and
\* files has no key.
C15_Witness ==
  /\ Idle
  /\ ret.op = "put" /\ ret.ok /\ ret.val = 1
  /\ mockFiles[1].name = protoName
  /\ mockFiles[1].contents = Buffer(<<65, 66>>)
  /\ buckets["b1"].proto = 1
  /\ buckets["b1"].files = <<>>

\* put has replaced a member that had contents, metadata and a queued save
\* error by a new object with the contents and metadata given to put.
C15_OwnNamesWitness ==
  /\ ret.op = "put" /\ ret.ok /\ ret.val = 2
  /\ mockFiles[1].contents = Buffer(<<65>>)
  /\ mockFiles[1].metadata = [foo |-> 1, bar |-> 1, metadata |-> [a |-> 1]]
  /\ mockFiles[1].mockQueues["save"] # <<>>
  /\ mockFiles[2].contents = Buffer(<<195, 169>>)
  /\ mockFiles[2].metadata = [foo |-> 2, metadata |-> EmptyObject]
  /\ Get(World, "b1", <<"a">>) = 2
\* What put(n, c, m) is to leave at n: the bytes and the metadata.
AsyncBytes(c) == IF c = JsUndefined THEN <<>> ELSE c.bytes
AsyncMetadata(m) ==
  CASE m = JsUndefined -> [metadata |-> EmptyObject]
    [] m = [foo |-> 1] -> [foo |-> 1, metadata |-> EmptyObject]
    [] m = [bar |-> 2] -> [bar |-> 2, metadata |-> EmptyObject]
\* The MockFile g of the world w is as put(n, c, m) leaves an object.
AsPut(w, g, c, m) ==
  /\ g \in 1..Len(w.mockFiles)
  /\ w.mockFiles[g].contents = Buffer(AsyncBytes(c))
  /\ w.mockFiles[g].metadata = AsyncMetadata(m)

\* The calls of put that await are resumed in the order of the queue q,
\* each going behind the others when it awaits again, until all have
\* settled: the world then, and how each call has ended.
RECURSIVE Drain(_, _, _)
Drain(w, q, done) ==
  IF q = <<>> THEN [w |-> w, done |-> done]
  ELSE LET t == Head(q)
           r == putResume(w, t.task)
           again == [id |-> t.id,
                     task |-> Task(t.task.bucket, t.task.name, t.task.contents,
                                   t.task.metadata, r)]
       IN IF Awaiting(r) THEN Drain(r.w, Append(Tail(q), again), done)
          ELSE Drain(r.w, Tail(q), [done EXCEPT ![t.id] = Outcome(r)])

\* put(n, c1, m1) and put(n, c2, m2) called one after the other on bucket b
\* with neither awaited, and the queue of microtasks run until it is empty.
TwoPuts(w, b, n, c1, m1, c2, m2) ==
  LET a1 == putStart(w, b, n, c1, m1)
      a2 == putStart(a1.w, b, n, c2, m2)
      Queue(id, c, m, a) ==
        IF Awaiting(a) THEN <<[id |-> id, task |-> Task(b, n, c, m, a)]>>
        ELSE <<>>
      End(a) == IF Awaiting(a) THEN Threw(a.w, NoError) ELSE Outcome(a)
  IN Drain(a2.w, Queue(1, c1, m1, a1) \o Queue(2, c2, m2, a2),
           <<End(a1), End(a2)>>)

\* C16: when two calls of put on one name of one bucket are started without
\* awaiting the first and interleave at their awaits, the object finally
\* stored at the name has the contents and metadata of one of the two calls,
\* never a mixture, and each call returns a handle with the contents and
\* metadata that call was given.
C16_PutAtomic ==
  \A b \in Created, n \in FileNames, c1 \in AsyncContents, c2 \in AsyncContents,
     m1 \in AsyncMetadatas, m2 \in AsyncMetadatas :
    Idle =>
      LET e == TwoPuts(World, b, n, c1, m1, c2, m2)
          g == Get(e.w, b, n)
      IN /\ AsPut(e.w, g, c1, m1) \/ AsPut(e.w, g, c2, m2)
         /\ e.done[1].ok /\ AsPut(e.w, e.done[1].val, c1, m1)
         /\ e.done[2].ok /\ AsPut(e.w, e.done[2].val, c2, m2)

\* Two puts of one name have both resolved with the MockFile of the second,
\* which has the contents of the second and the metadata of both; the
\* MockFile of the first has the contents of the first and no metadata.
C16_Witness ==
  /\ Idle
  /\ ret.op = "put" /\ ret.ok /\ ret.val = 2
  /\ mockFiles[1].name = mockFiles[2].name
  /\ mockFiles[1].contents = Buffer(<<65>>)
  /\ mockFiles[1].metadata = [metadata |-> EmptyObject]
  /\ mockFiles[2].contents = Buffer(<<66>>)
  /\ mockFiles[2].metadata = [foo |-> 1, bar |-> 2, metadata |-> EmptyObject]
\* The call of the mockable method k on the MockFile f.
CallOf(k, w, f) ==
  CASE k = "exists" -> exists(w, f)
    [] k = "delete" -> delete(w, f)
    [] k = "download" -> download(w, f)
    [] k = "getSignedUrl" -> getSignedUrl(w, f)
    [] k = "save" -> save(w, f, Buffer(<<65>>), NoOptions)
    [] k = "setMetadata" -> setMetadata(w, f, EmptyObject)
    [] k = "getMetadata" -> getMetadata(w, f)

C17_Step ==
  \A f \in Files, m \in Mockable \cup {""} :
    (ret'.op = "mockReset"
       /\ Did("mockReset", f,
              mockReset(World, f, IF m = "" THEN <<>> ELSE MockableName[m])))
      => LET reset == IF m = "" THEN Mockable ELSE {m}
         IN /\ ret'.ok
            /\ Cardinality(DOMAIN mockFiles'[f].mockQueues) = 7
            /\ \A k \in reset : mockFiles'[f].mockQueues[k] = <<>>
            /\ \A k \in Mockable \ reset :
                 mockFiles'[f].mockQueues[k] = mockFiles[f].mockQueues[k]
            /\ m # "" => /\ mockFiles'[f].addedQueues = mockFiles[f].addedQueues
                         /\ mockFiles'[f].queuesProto = mockFiles[f].queuesProto
            /\ mockFiles'[f].contents = mockFiles[f].contents
            /\ mockFiles'[f].metadata = mockFiles[f].metadata
            /\ \A g \in Files \ {f} : mockFiles'[g] = mockFiles[g]
            /\ Len(mockFiles') = Len(mockFiles)
            /\ buckets' = buckets
            /\ streams' = streams
            /\ \A k \in reset :
                 LET r == CallOf(k, WorldAfter, f)
                 IN IF k \in {"exists", "save"} \/ ThisMember
                    THEN r.ok
                    ELSE ~r.ok /\ r.val = ThisNoSuchFile

\* C17: mockReset(method) empties the queue of that method on that handle
\* and leaves its other queues unchanged; mockReset() empties all seven;
\* either way contents, metadata and membership and the queues of every
\* other handle are unchanged, and the next call of a reset method succeeds
\* or fails by the state of the object alone.
C17_MockResetFrame == [][C17_Step]_calls

\* mockReset has run on a handle that keeps an error queued for delete and
\* has none for save, while the other handle of the name keeps its own.
C17_Witness ==
  /\ ret.op = "mockReset" /\ ret.this = 1
  /\ Len(mockFiles) = 2
  /\ mockFiles[1].mockQueues["delete"] = <<ErrorEntry([error |-> "e2"])>>
  /\ mockFiles[1].mockQueues["save"] = <<>>
  /\ mockFiles[2].mockQueues["save"] = <<ErrorEntry([error |-> "e1"])>>
\* The places of the storage: a bucket and a property of its files.
Places == {<<b, i>> : b \in Created, i \in 1..MaxMembers}
Stored(p) == p[2] <= Len(buckets[p[1]].files)
StoredAt(p) == buckets[p[1]].files[p[2]]

\* What is stored at the place p is a MockFile of the name it is stored
\* under and of the bucket it is stored in.
C18_Own(p) ==
  /\ StoredAt(p).value \in Files
  /\ mockFiles[StoredAt(p).value].name = StoredAt(p).key
  /\ mockFiles[StoredAt(p).value].bucket = p[1]
C18_Over(places) ==
  /\ \A p \in places : Stored(p) => C18_Own(p)
  /\ \A p \in places, q \in places :
       (Stored(p) /\ Stored(q) /\ StoredAt(p).value = StoredAt(q).value)
         => p = q
\* The places that hold a name files inherits no property for.
OwnPlaces == {p \in Places : Stored(p) => StoredAt(p).key \notin Inheritable}

\* C18: in every reachable state each MockFile stored in the files of a
\* bucket under the name n has the name n and that bucket as its bucket, so
\* that no MockFile is stored in two buckets or under two names.
C18_MembershipConsistent == C18_Over(Places)

\* The same for the names that files inherits no property for.
C18_MembershipConsistentOfOwnNames == C18_Over(OwnPlaces)

\* A forced lookup of "constructor" has returned what is no MockFile and
\* has stored it in files under that name.
C18_Witness ==
  /\ ret.op = "file" /\ ret.val = NotAFile
  /\ Member(World, "b1", constructorName)
  /\ Get(World, "b1", constructorName) = NotAFile
  /\ buckets["b1"].proto = NotAFile

\* The error at the head of the queue of method m on the MockFile f.
HasQueued(f, m) == mockFiles[f].mockQueues[m] # <<>>
HeadOf(f, m) == Head(mockFiles[f].mockQueues[m]).error

\* Membership, contents and metadata at the name n of bucket b are in the
\* world w as they are now.
SameAt(w, b, n) ==
  /\ Get(w, b, n) = Get(World, b, n)
  /\ (Member(World, b, n) /\ Get(World, b, n) \in Files) =>
       LET t == Get(World, b, n)
       IN /\ w.mockFiles[t].contents = mockFiles[t].contents
          /\ w.mockFiles[t].metadata = mockFiles[t].metadata

C19_Over(sources) ==
  \A f \in sources, dest \in Destinations(FileNames \cup InheritedNames),
     o \in Options(CopyMetadatas) :
    Idle =>
      LET r == copy(World, f, dest, o)
          b == targetBucket(World, f, dest)
          n == targetFileName(World, f, dest)
          src == Member(World, mockFiles[f].bucket, mockFiles[f].name)
          t == Get(World, b, n)
      IN /\ (~src \/ HasQueued(f, "download") \/ HasQueued(f, "getMetadata"))
              => /\ ~r.ok
                 /\ SameAt(r.w, b, n)
                 /\ Len(r.w.mockFiles) = Len(mockFiles)
                 /\ IF HasQueued(f, "download")
                    THEN /\ r.val = HeadOf(f, "download")
                         /\ r.w.mockFiles[f].mockQueues["getMetadata"] =
                              mockFiles[f].mockQueues["getMetadata"]
                    ELSE IF ~src
                    THEN r.val = NoSuchFile(mockFiles[f].bucket,
                                            mockFiles[f].name)
                    ELSE r.val = HeadOf(f, "getMetadata")
         /\ (/\ src /\ ~HasQueued(f, "download")
             /\ ~HasQueued(f, "getMetadata")
             /\ Member(World, b, n) /\ t \in Files /\ HasQueued(t, "save"))
              => /\ ~r.ok
                 /\ r.val = HeadOf(t, "save")
                 /\ SameAt(r.w, b, n)

\* C19: a copy whose source is absent, or has an error queued for download
\* or getMetadata, fails: with the error queued for download if there is
\* one, leaving the queue of getMetadata as it was, otherwise with NotFound
\* if the source is absent, otherwise with the error queued for getMetadata;
\* membership, contents and metadata at the target name are as before.  A
\* copy that gets past its source and finds an error queued for save on the
\* member at the target fails with that error, the target again as before.
C19_CopyPropagatesFailures == C19_Over(Files)

\* The same for the sources of a name that files inherits no property for.
OwnSources == {f \in Files : mockFiles[f].name \notin Inheritable}
C19_CopyPropagatesFailuresOfOwnNames == C19_Over(OwnSources)

\* A copy has succeeded from the handle that put("constructor", "A") made,
\* after a delete that has left the name no key of files.
C19_Witness ==
  /\ ret.op = "copy" /\ ret.ok
  /\ mockFiles[ret.this].name = constructorName
  /\ ~Member(World, mockFiles[ret.this].bucket, constructorName)
  /\ mockFiles[ret.val[1]].name = <<"a">>
  /\ mockFiles[ret.val[1]].contents = Buffer(<<65>>)

\* The methods that call mustBeExists after the look at their queue.
FaultThenExistence ==
  {"delete", "download", "setMetadata", "getMetadata", "getSignedUrl"}

C20_Step ==
  (/\ ret'.op \in FaultThenExistence
   /\ QueueBefore # <<>>
   /\ ~ThisMember)
    => /\ ~ret'.ok
       /\ ret'.val = Head(QueueBefore).error
       /\ QueueAfter = Tail(QueueBefore)
       /\ buckets' = buckets
       /\ Len(QueueBefore) = 1 =>
            LET next == CallOf(ret'.op, WorldAfter, ret'.this)
            IN /\ ~next.ok
               /\ next.val = ThisNoSuchFile
               /\ next.w = WorldAfter

\* C20: delete, download, setMetadata, getMetadata and getSignedUrl look at
\* their queue before they look for the object: called with an error queued
\* on a handle whose name is not a member, the call fails with the queued
\* error and takes it off the queue, and with that the only error queued
\* the same call made next fails with 'No such file'.
C20_FaultBeforeExistence == [][C20_Step]_calls

\* The same for the names that files inherits no property for.
C20_FaultBeforeExistenceOfOwnNames == [][ThisInherited \/ C20_Step]_calls

\* download has failed with the only error queued for it on the name
\* constructor, which is no key of files, and the same call made next
\* succeeds.
C20_Witness ==
  /\ ret.op = "download" /\ ~ret.ok /\ ret.val = [error |-> "e1"]
  /\ mockFiles[ret.this].name = constructorName
  /\ mockFiles[ret.this].mockQueues["download"] = <<>>
  /\ ~Member(World, mockFiles[ret.this].bucket, constructorName)
  /\ download(World, ret.this).ok

\* download has failed with the only error queued for it on a name that is
\* not a member.
C20_OwnNamesWitness ==
  /\ ret.op = "download" /\ ~ret.ok /\ ret.val = [error |-> "e2"]
  /\ ~Member(World, mockFiles[ret.this].bucket, mockFiles[ret.this].name)
  /\ mockFiles[ret.this].mockQueues["download"] = <<>>
\* The queue of method k on the handle g is as before.
SameQueue(g, k) == mockFiles'[g].mockQueues[k] = mockFiles[g].mockQueues[k]

C21_Step ==
  /\ MockableCall =>
       /\ QueueAfter = QueueBefore
            \/ (QueueBefore # <<>> /\ QueueAfter = Tail(QueueBefore))
       /\ \A k \in Mockable \ {ret'.op} : SameQueue(ret'.this, k)
       /\ \A g \in Files \ {ret'.this}, k \in Mockable : SameQueue(g, k)
  /\ ret'.op = "mockErrorOnce" =>
       \E m \in Mockable :
         /\ Len(mockFiles'[ret'.this].mockQueues[m]) =
              Len(mockFiles[ret'.this].mockQueues[m]) + 1
         /\ SubSeq(mockFiles'[ret'.this].mockQueues[m], 1,
                   Len(mockFiles[ret'.this].mockQueues[m])) =
              mockFiles[ret'.this].mockQueues[m]
         /\ \A k \in Mockable \ {m} : SameQueue(ret'.this, k)
         /\ \A g \in Files \ {ret'.this}, k \in Mockable : SameQueue(g, k)

\* C21: a call of a mockable method on a handle, whether it succeeds or
\* fails, removes at most the head of the queue of that method on that
\* handle, and leaves the queues of the six other methods of the handle and
\* every queue of every other handle as they were; mockErrorOnce(m, e) adds
\* one entry at the end of the queue of m and changes no other queue.
C21_QueuesIndependent == [][C21_Step]_calls

\* exists has succeeded on a handle that keeps an error queued for delete,
\* while the other handle of the name keeps one queued for exists.
C21_Witness ==
  /\ ret.op = "exists" /\ ret.ok
  /\ Len(mockFiles) = 2
  /\ mockFiles[ret.this].mockQueues["delete"] # <<>>
  /\ \E g \in Files \ {ret.this} : mockFiles[g].mockQueues["exists"] # <<>>
\* The streams without the i-th.
Without(i) == SubSeq(streams, 1, i - 1) \o SubSeq(streams, i + 1, Len(streams))

\* The step closes the i-th write stream.
Closes(i) ==
  /\ ret'.op = "finish"
  /\ ret'.this = streams[i].file
  /\ streams' = Without(i)

\* What createWriteStream, write and every call but save and the close do.
C22_Open ==
  /\ ret'.op = "createWriteStream" =>
       /\ ret'.ok
       /\ Member(WorldAfter, mockFiles[ret'.this].bucket, mockFiles[ret'.this].name)
       /\ \A g \in Files : mockFiles'[g] = mockFiles[g]
       /\ streams' = Append(streams, [file |-> ret'.this, written |-> <<>>,
                                      ended |-> FALSE])
  /\ ret'.op \notin {"finish", "save"} =>
       \A g \in Files : mockFiles'[g].contents = mockFiles[g].contents

\* What the close of the i-th write stream does.
C22_Close(i) ==
  /\ mockFiles'[streams[i].file].contents = Buffer(streams[i].written)
  /\ \A g \in Files \ {streams[i].file} :
       mockFiles'[g].contents = mockFiles[g].contents

C22_Step ==
  /\ C22_Open
  /\ \A i \in 1..Len(streams) : Closes(i) => C22_Close(i)

\* C22: createWriteStream succeeds, makes the name a member at once and
\* changes no queue, whatever is queued for save; no call but save and the
\* close of a write stream changes the contents of a handle; the close of a
\* write stream makes the contents of its handle the bytes written to that
\* stream, whatever save or another stream stored since it was opened.
C22_WriteStreamAppliesAtClose == [][C22_Step]_calls

\* The same with the close of a stream nothing was written to left out.
C22_WrittenStep ==
  /\ C22_Open
  /\ \A i \in 1..Len(streams) :
       (Closes(i) /\ streams[i].written # <<>>) => C22_Close(i)
C22_WrittenStreamAppliesAtClose == [][C22_WrittenStep]_calls

\* A write stream opened with an error queued for save has been closed with
\* nothing written: the error is still queued and the contents are false.
C22_Witness ==
  /\ ret.op = "finish"
  /\ Member(World, mockFiles[ret.this].bucket, mockFiles[ret.this].name)
  /\ mockFiles[ret.this].contents = JsFalse
  /\ mockFiles[ret.this].mockQueues["save"] # <<>>

\* A write stream has been closed after a save on its handle and the close
\* of another stream: the contents are the bytes written to it.
C22_WrittenWitness ==
  /\ ret.op = "finish"
  /\ streams = <<>>
  /\ mockFiles[ret.this].contents = Buffer(<<66>>)
  /\ mockFiles[ret.this].mockQueues["save"] # <<>>
C23_Step ==
  \A i \in 1..Len(streams) :
    Closes(i) => LET r == exists(WorldAfter, streams[i].file)
                 IN r.ok /\ r.val = <<TRUE>>

\* C23: exists() called right after the close of a write stream of a handle
\* resolves true, whatever was called between createWriteStream and the
\* close, a successful delete of the object included.
C23_ExistsAfterClose == [][C23_Step]_calls

\* A write stream has been closed with a byte written, and the name of its
\* handle is not a member: the object was deleted while the stream was open.
C23_Witness ==
  /\ ret.op = "finish"
  /\ mockFiles[ret.this].contents = Buffer(<<65>>)
  /\ ~Member(World, mockFiles[ret.this].bucket, mockFiles[ret.this].name)
  /\ exists(World, ret.this).val = <<FALSE>>
\* The contents and metadata of the MockFile f.
PairOf(f) == <<mockFiles[f].contents, mockFiles[f].metadata>>
\* The pairs a MockFile of SpecSnapshot holds when no copy has stored into
\* it: that of the constructor and those of the saves.
SnapshotPairs ==
  {<<Buffer(<<>>), [metadata |-> EmptyObject]>>} \cup SnapshotSaves

\* C24: the contents and metadata a copy stores at its target are a pair
\* the source held at one instant, whatever save on the source ran between
\* the parts of the copy: with the source only ever saved with A and foo 1
\* or with B and foo 2, the target of a copy that has just resolved has one
\* of these two pairs or that of a new MockFile, never the contents of one
\* with the metadata of another.
C24_CopySnapshot ==
  (ret.op = "copy" /\ ret.ok) => PairOf(ret.val[1]) \in SnapshotPairs

\* A copy has resolved with a target that has the contents A the source had
\* when the copy was called and the metadata foo 2 of the save that ran
\* before the copy was resumed; the source has B and foo 2.
C24_Witness ==
  /\ ret.op = "copy" /\ ret.ok
  /\ ret.this # ret.val[1]
  /\ PairOf(ret.val[1]) = <<Buffer(<<65>>), [foo |-> 2]>>
  /\ PairOf(ret.this) = <<Buffer(<<66>>), [foo |-> 2]>>
C25_Step ==
  ret'.op = "put" =>
    /\ ret'.ok
    /\ ret'.val \in 1..Len(mockFiles')
    /\ Get(WorldAfter, mockFiles'[ret'.val].bucket, mockFiles'[ret'.val].name)
         = ret'.val
    /\ SettledAtResume
         => IsAt(mockFiles', ret'.val, Head(tasks).bucket, Head(tasks).name)

\* C25: a put settles by resolving, never by rejecting, whatever delete or
\* save another task called on the name between its parts, and what it
\* resolves with is the MockFile that is then the member at the name.
C25_PutAlwaysSucceeds == [][C25_Step]_calls

\* A put with contents has been rejected with a TypeError: the name was
\* deleted while it awaited the save that stored the contents.
C25_Witness ==
  /\ ret.op = "put" /\ ~ret.ok /\ ret.val = TypeError
  /\ \E f \in Files :
       /\ mockFiles[f].contents = Buffer(<<65>>)
       /\ ~Member(World, mockFiles[f].bucket, mockFiles[f].name)

\* A put has resolved with undefined.
C25_UndefinedWitness ==
  /\ ret.op = "put" /\ ret.ok /\ ret.val = Undefined
C26_Step ==
  \A f \in Files, d \in AllDatas :
    (Did("save", f, save(World, f, d, NoOptions)) /\ ret'.ok)
      => LET l == file(WorldAfter, mockFiles[f].bucket, mockFiles[f].name, FALSE)
             r == download(l.w, l.val)
         IN l.w.mockFiles[l.val].mockQueues["download"] = <<>>
              => r.ok /\ r.val = <<Buffer(BytesOf(d))>>

\* C26: after a successful save(X) through any handle of a name, a handle
\* looked up before another handle made the name a member included,
\* download() through the handle a new file(name) lookup returns, with no
\* error queued for it, returns exactly the bytes X.
C26_ContentsOfTheName == [][C26_Step]_calls

\* save has succeeded on the first handle of a name of which the second is
\* the member: the two have different contents, and a lookup of the name
\* returns the second.
C26_Witness ==
  /\ ret.op = "save" /\ ret.ok /\ ret.this = 1
  /\ Len(mockFiles) = 2
  /\ mockFiles[1].contents = Buffer(<<65>>)
  /\ mockFiles[2].contents = Buffer(<<255>>)
  /\ file(World, mockFiles[1].bucket, mockFiles[1].name, FALSE).val = 2
  /\ download(World, 2).ok
  /\ download(World, 2).val = <<Buffer(<<255>>)>>
\* The bytes of the contents of the MockFile f: none when the contents are
\* the false an empty write stream left.
BytesNow(f) ==
  IF isBuffer(mockFiles[f].contents) THEN mockFiles[f].contents.bytes ELSE <<>>

\* createReadStream on a member returns a source of the bytes of the
\* contents and changes nothing.
C27_Read ==
  /\ ret'.ok
  /\ ret'.val = [type |-> "Readable", data |-> BytesNow(ret'.this)]
  /\ UNCHANGED <<buckets, mockFiles, streams>>

C27_Step == (ret'.op = "createReadStream" /\ ThisMember) => C27_Read

\* C27: createReadStream() on a handle whose name is a member returns a new
\* source holding a copy of the bytes the contents are at the call, so that
\* what it yields does not depend on what is saved, written or deleted
\* afterwards; it succeeds whatever errors are queued, removes none of them
\* and changes no membership, contents or metadata.
C27_ReadStreamYieldsContents == [][C27_Step]_calls

\* The same for contents that are a Buffer.
C27_BufferStep ==
  (ret'.op = "createReadStream" /\ ThisMember
     /\ isBuffer(mockFiles[ret'.this].contents)) => C27_Read
C27_ReadStreamYieldsBuffer == [][C27_BufferStep]_calls

\* createReadStream has returned a source of the five bytes of the text
\* "false" for an object whose write stream was closed with nothing written.
C27_Witness ==
  /\ ret.op = "createReadStream" /\ ret.ok
  /\ mockFiles[ret.this].contents = JsFalse
  /\ ret.val = [type |-> "Readable", data |-> FalseText]

\* createReadStream has returned a source of the byte written by a stream,
\* with an error queued for save on the handle.
C27_BufferWitness ==
  /\ ret.op = "createReadStream" /\ ret.ok
  /\ ret.val = [type |-> "Readable", data |-> <<66>>]
  /\ mockFiles[ret.this].mockQueues["save"] # <<>>
\* The place of the MockFile g: its bucket and its name.
At(g) == <<mockFiles[g].bucket, mockFiles[g].name>>
LocalPlaces == {<<b, n>> : b \in Created, n \in FileNames}
SameMember(p) == Get(WorldAfter, p[1], p[2]) = Get(World, p[1], p[2])

\* Nothing but the place P has changed: no membership, and no contents,
\* metadata or queue of a MockFile of another place.
OnlyAt(P) ==
  /\ DOMAIN buckets' = DOMAIN buckets
  /\ \A p \in LocalPlaces \ {P} : SameMember(p)
  /\ \A g \in Files : At(g) # P => mockFiles'[g] = mockFiles[g]

\* The same, but that the queues of download and getMetadata of the source
\* f of a copy may have lost their head.
OnlyAtBySource(P, f) ==
  /\ DOMAIN buckets' = DOMAIN buckets
  /\ \A p \in LocalPlaces \ {P} : SameMember(p)
  /\ \A g \in Files :
       At(g) # P =>
         /\ mockFiles'[g].contents = mockFiles[g].contents
         /\ mockFiles'[g].metadata = mockFiles[g].metadata
         /\ \A k \in Mockable :
              \/ SameQueue(g, k)
              \/ /\ g = f /\ k \in {"download", "getMetadata"}
                 /\ mockFiles[g].mockQueues[k] # <<>>
                 /\ mockFiles'[g].mockQueues[k] = Tail(mockFiles[g].mockQueues[k])

\* save, setMetadata, delete, createWriteStream and the close of a write
\* stream on a handle, and every part of a put on a name, change nothing
\* but their place: the put that ends where it is called, the part that
\* leaves it awaiting, and the part that settles it.
C28_Calls ==
  /\ ret'.op \in {"save", "setMetadata", "delete", "createWriteStream", "end",
                  "finish"}
       => OnlyAt(At(ret'.this))
  /\ \A b \in Created, n \in FileNames :
       (ret'.op = "put"
          /\ Did("put", Undefined, put(World, b, n, JsUndefined, JsUndefined)))
         => OnlyAt(<<b, n>>)
  /\ (LeftAwaiting /\ tasks'[Len(tasks')].op = "put") =>
       OnlyAt(<<tasks'[Len(tasks')].bucket, tasks'[Len(tasks')].name>>)
  /\ (SettledAtResume /\ Head(tasks).op = "put") =>
       OnlyAt(<<Head(tasks).bucket, Head(tasks).name>>)

\* The target of copy called on f with the destination dest.
TargetOf(f, dest) ==
  <<targetBucket(World, f, dest), targetFileName(World, f, dest)>>

\* Every part of a copy changes nothing but at the target and in the queues
\* of the source (P), or nothing but at the target (Q).
CopyParts(P(_, _), Q(_)) ==
  /\ (LeftAwaiting /\ tasks'[Len(tasks')].op = "copy") =>
       LET t == tasks'[Len(tasks')]
       IN P(TargetOf(t.this, t.destination), t.this)
            /\ Q(TargetOf(t.this, t.destination))
  /\ (SettledAtResume /\ Head(tasks).op = "copy") =>
       LET t == Head(tasks)
       IN P(TargetOf(t.this, t.destination), t.this)
            /\ Q(TargetOf(t.this, t.destination))
Anywhere(p) == TRUE
AnywhereBySource(p, f) == TRUE

C28_Step == C28_Calls /\ CopyParts(OnlyAtBySource, Anywhere)

\* C28: save, setMetadata, delete, createWriteStream, the close of a write
\* stream and put on a name of a bucket leave membership, contents, metadata
\* and queues of every other name of the bucket and of every name of every
\* other bucket as they were; copy changes no membership, contents or
\* metadata but at its target, and no queue elsewhere but those of download
\* and getMetadata of its source, which lose the error at their head.
C28_LocalButSourceQueues == [][C28_Step]_calls

C28_StrictStep == C28_Calls /\ CopyParts(AnywhereBySource, OnlyAt)

\* C28 as stated: copy changes nothing at all but at its target, the queues
\* of its source included.
C28_Local == [][C28_StrictStep]_calls

\* A copy has failed with the error queued for download on its source, in
\* the first bucket, while the second bucket has a member of its own.
C28_Witness ==
  /\ ret.op = "copy" /\ ~ret.ok /\ ret.val = [error |-> "e1"]
  /\ Len(mockFiles) = 2
  /\ mockFiles[ret.this].bucket = "b1"
  /\ mockFiles[ret.this].mockQueues["download"] = <<>>
  /\ \E g \in Files : /\ mockFiles[g].bucket = "b2"
                      /\ Member(World, "b2", mockFiles[g].name)
                      /\ mockFiles[g].contents = Buffer(<<65>>)

\* A put with contents and metadata on the second name of the first bucket
\* has resolved, while the first name is a member with an error queued for
\* getMetadata.
C28_PutWitness ==
  /\ ret.op = "put" /\ ret.ok /\ ret.val \in Files
  /\ At(ret.val) = <<"b1", <<"2">>>>
  /\ mockFiles[ret.val].contents = Buffer(<<65>>)
  /\ \E g \in Files : /\ At(g) = <<"b1", <<"a">>>>
                      /\ Get(World, "b1", <<"a">>) = g
                      /\ mockFiles[g].mockQueues["getMetadata"] # <<>>

\* The same put, while the second bucket has a member with contents and an
\* error queued for download.
C28_PutBesideBucketWitness ==
  /\ ret.op = "put" /\ ret.ok /\ ret.val \in Files
  /\ mockFiles[ret.val].bucket = "b1"
  /\ mockFiles[ret.val].contents = Buffer(<<65>>)
  /\ \E g \in Files : /\ mockFiles[g].bucket = "b2"
                      /\ Get(World, "b2", mockFiles[g].name) = g
                      /\ mockFiles[g].contents = Buffer(<<65>>)
                      /\ mockFiles[g].mockQueues["download"] # <<>>

====
